---- MODULE Spec2Model ----
(***************************************************************************)
(* echoshell: a tmux session picker (src/main.go).                         *)
(*                                                                         *)
(* Part 1 models the text helpers, the grouping engine, the match/score    *)
(* engine and the session names as operators, each applied to drawn        *)
(* inputs by a specification of its own (SpecGroup, SpecDiscover,          *)
(* SpecScore, SpecQuick, SpecRun, SpecName, SpecNav).  Part 2 models the   *)
(* Bubble Tea event loop (model.Update), the commands it issues and the    *)
(* tmux server they talk to, with the soft-attach preview pane (Spec);     *)
(* SpecRefresh is that loop with its refreshes numbered.                   *)
(*                                                                         *)
(* Strings are sequences of one-character strings, so that prefix tests,   *)
(* trimming and byte order are computed and not assumed.                   *)
(***************************************************************************)
EXTENDS Integers, Sequences, FiniteSets, Bags, TLC

VARIABLES
    m,          \* the Bubble Tea model value (struct model)
    running,    \* TRUE until Update returns tea.Quit
    cmds,       \* commands returned by Update that have not run yet
    msgs,       \* result messages produced by commands, not yet handled
    tickTimer,  \* TRUE while a tea.Tick timer is armed
    tmux,       \* the tmux server: live sessions and preview panes
    repoGroupCache, \* var repoGroupCache, for the one target "local"
    keys,       \* keys pressed so far
    last,       \* history: the tmux calls the last Update turn made
    gIn,        \* function checks: the inputs handed to the function
                \* (SpecRefresh: the number of refreshes issued)
    gOut,       \* function checks: the result it returned
                \* (SpecRefresh: the number of the refresh shown)
    gPc         \* function checks: "in" before the call, "out" after it

vars == <<m, running, cmds, msgs, tickTimer, tmux, repoGroupCache, keys, last,
          gIn, gOut, gPc>>

(***************************************************************************)
(* Bounds                                                                  *)
(***************************************************************************)
MaxPathLen == 6     \* longest working directory drawn, in characters
MaxKeys == 2        \* keys pressed in one run
MaxInflight == 1    \* commands and messages outstanding when a tick fires
MaxPanes == 2       \* pane identifiers the tmux server hands out
MaxSessions == 3    \* tmux sessions alive at once

(***************************************************************************)
(* Text helpers                                                            *)
(***************************************************************************)

\* The characters of the model in ASCII order; Ord gives their rank.
Alphabet ==
    <<" ", "%", "-", ".", "/", "0", "1", "2", "3", "4", "5", "6", "7", "8", "9",
      "A", "B", "a", "b", "c", "d", "e", "f", "g", "h", "i", "j", "k", "l", "m",
      "n", "o", "p", "q", "r", "s", "t", "u", "v", "w", "x", "y", "z">>

Ord(c) == CHOOSE i \in 1..Len(Alphabet) : Alphabet[i] = c

\* Go's < on strings: bytewise lexicographic order.
RECURSIVE StrLess(_, _)
StrLess(a, b) ==
    IF b = <<>> THEN FALSE
    ELSE IF a = <<>> THEN TRUE
    ELSE IF Ord(a[1]) # Ord(b[1]) THEN Ord(a[1]) < Ord(b[1])
    ELSE StrLess(Tail(a), Tail(b))

RECURSIVE TrimLeft(_)
TrimLeft(s) ==
    IF s # <<>> /\ s[1] = " " THEN TrimLeft(Tail(s)) ELSE s

RECURSIVE TrimRight(_)
TrimRight(s) ==
    IF s # <<>> /\ s[Len(s)] = " " THEN TrimRight(SubSeq(s, 1, Len(s) - 1)) ELSE s

\* strings.TrimSpace
TrimSpace(s) == TrimRight(TrimLeft(s))

\* strings.HasPrefix
HasPrefix(s, p) ==
    /\ Len(s) >= Len(p)
    /\ SubSeq(s, 1, Len(p)) = p

\* The pieces of s between separators, empty pieces included.
RECURSIVE SplitSep(_, _, _)
SplitSep(s, sep, cur) ==
    IF s = <<>> THEN <<cur>>
    ELSE IF s[1] = sep THEN <<cur>> \o SplitSep(Tail(s), sep, <<>>)
    ELSE SplitSep(Tail(s), sep, Append(cur, s[1]))

\* The element-by-element pass of filepath.Clean over the path elements:
\* empty and "." elements vanish, ".." removes the element before it
\* (at the root it vanishes, in a relative path it is kept).
RECURSIVE CleanElems(_, _, _)
CleanElems(elems, rooted, acc) ==
    IF elems = <<>> THEN acc
    ELSE LET e == elems[1]
             rest == Tail(elems)
         IN  IF e = <<>> \/ e = <<".">> THEN CleanElems(rest, rooted, acc)
             ELSE IF e = <<".", ".">> THEN
                 IF acc # <<>> /\ acc[Len(acc)] # <<".", ".">>
                 THEN CleanElems(rest, rooted, SubSeq(acc, 1, Len(acc) - 1))
                 ELSE IF rooted THEN CleanElems(rest, rooted, acc)
                 ELSE CleanElems(rest, rooted, Append(acc, e))
             ELSE CleanElems(rest, rooted, Append(acc, e))

RECURSIVE JoinSep(_, _)
JoinSep(elems, sep) ==
    IF elems = <<>> THEN <<>>
    ELSE IF Len(elems) = 1 THEN elems[1]
    ELSE elems[1] \o <<sep>> \o JoinSep(Tail(elems), sep)

\* filepath.Clean on a Unix path.
Clean(p) ==
    IF p = <<>> THEN <<".">>
    ELSE LET rooted == p[1] = "/"
             body == JoinSep(CleanElems(SplitSep(p, "/", <<>>), rooted, <<>>), "/")
         IN  IF rooted THEN <<"/">> \o body
             ELSE IF body = <<>> THEN <<".">>
             ELSE body

\* hasPathPrefix without the separator after the prefix.
hasPathPrefixUnaligned(path, prefix) ==
    LET p == Clean(TrimSpace(path))
        pr == Clean(TrimSpace(prefix))
    IN  IF p = <<>> \/ pr = <<>> THEN FALSE
        ELSE IF p = pr THEN TRUE
        ELSE HasPrefix(p, pr)

\* hasPathPrefix: path equals prefix or continues it after a separator.
hasPathPrefix(path, prefix) ==
    LET p == Clean(TrimSpace(path))
        pr == Clean(TrimSpace(prefix))
    IN  IF p = <<>> \/ pr = <<>> THEN FALSE
        ELSE IF p = pr THEN TRUE
        ELSE HasPrefix(p, pr \o <<"/">>)

\* atoiSafe: the leading decimal digits of s as a number, 0 when none.
DigitVal(c) ==
    IF Ord(c) >= Ord("0") /\ Ord(c) <= Ord("9") THEN Ord(c) - Ord("0") ELSE -1

RECURSIVE atoiFrom(_, _)
atoiFrom(s, n) ==
    IF s = <<>> THEN n
    ELSE IF DigitVal(s[1]) < 0 THEN n
    ELSE atoiFrom(Tail(s), n * 10 + DigitVal(s[1]))

atoiSafe(s) == atoiFrom(s, 0)

(***************************************************************************)
(* Grouping engine                                                         *)
(***************************************************************************)
RootGroup ==
    [Workspace |-> <<"r", "o", "o", "t">>, Repo |-> <<"r", "o", "o", "t">>,
     Name |-> <<"r", "o", "o", "t">>, Path |-> <<"/">>, Sessions |-> <<>>]

\* The group that discoverRepoGroups builds for directory `repo` of `root`.
RepoGroup(root, repo) ==
    [Workspace |-> <<"g", "i", "t">>, Repo |-> repo,
     Name |-> <<"g", "i", "t", "/">> \o repo,
     Path |-> Clean(root \o <<"/">> \o repo), Sessions |-> <<>>]

\* Lines 1744-1755: the index of the group a working directory belongs to.
\* Index 1 is the root group (Go index 0); the scan starts after it.
RECURSIVE bestScan(_, _, _, _, _)
bestScan(groups, workdir, i, best, bestLen) ==
    IF i > Len(groups) THEN best
    ELSE LET gp == TrimSpace(groups[i].Path)
         IN  IF gp = <<>> \/ gp = <<"/">>
             THEN bestScan(groups, workdir, i + 1, best, bestLen)
             ELSE IF hasPathPrefix(workdir, gp) /\ Len(gp) > bestLen
             THEN bestScan(groups, workdir, i + 1, i, Len(gp))
             ELSE bestScan(groups, workdir, i + 1, best, bestLen)

\* The scan that lets a later group of equal length replace the best one.
RECURSIVE bestScanLastWins(_, _, _, _, _)
bestScanLastWins(groups, workdir, i, best, bestLen) ==
    IF i > Len(groups) THEN best
    ELSE LET gp == TrimSpace(groups[i].Path)
         IN  IF gp = <<>> \/ gp = <<"/">>
             THEN bestScanLastWins(groups, workdir, i + 1, best, bestLen)
             ELSE IF hasPathPrefix(workdir, gp) /\ Len(gp) >= bestLen
             THEN bestScanLastWins(groups, workdir, i + 1, i, Len(gp))
             ELSE bestScanLastWins(groups, workdir, i + 1, best, bestLen)

bestGroupLastOfEqual(groups, workdir) ==
    bestScanLastWins(groups, workdir, 2, 1, 0)

\* The scan with the last group, not the root group, as the fallback.
bestGroupFallsToLast(groups, workdir) ==
    bestScan(groups, workdir, 2, Len(groups), 0)

bestGroup(groups, workdir) == bestScan(groups, workdir, 2, 1, 0)

\* Lines 1701-1721: working directory of each session, taken from the
\* first list-panes row of that session whose pane index is "0".
RECURSIVE pathBySession(_, _)
pathBySession(rows, sn) ==
    IF rows = <<>> THEN <<>>
    ELSE LET r == rows[1]
         IN  IF TrimSpace(r.Index) = <<"0">> /\ TrimSpace(r.Name) # <<>>
                /\ TrimSpace(r.Name) = sn
             THEN TrimSpace(r.Path)
             ELSE pathBySession(Tail(rows), sn)

\* sort.Slice by Name: insertion into a list kept ascending.  Session
\* names are unique in one report, so the order of equal names, which
\* sort.Slice leaves open, never matters.
RECURSIVE insertByName(_, _)
insertByName(sorted, s) ==
    IF sorted = <<>> THEN <<s>>
    ELSE IF StrLess(s.Name, sorted[1].Name) THEN <<s>> \o sorted
    ELSE <<sorted[1]>> \o insertByName(Tail(sorted), s)

\* The sessions left in the order they were appended in.
appendOrder(ss) == ss

RECURSIVE sortByName(_)
sortByName(ss) ==
    IF ss = <<>> THEN <<>>
    ELSE insertByName(sortByName(SubSeq(ss, 1, Len(ss) - 1)), ss[Len(ss)])

\* The loop that appends a session of a repo group to the root group too.
RECURSIVE attachRowsRootToo(_, _, _)
attachRowsRootToo(groups, rows, paneRows) ==
    IF rows = <<>> THEN groups
    ELSE LET name == TrimSpace(rows[1].Name)
             workdir == TrimSpace(pathBySession(paneRows, name))
             sess == [Name |-> name, Workdir |-> workdir,
                      Attached |-> TrimSpace(rows[1].Attached) = <<"1">>,
                      Windows |-> atoiSafe(TrimSpace(rows[1].Windows))]
             best == bestGroup(groups, workdir)
             one == [groups EXCEPT ![best].Sessions = Append(@, sess)]
         IN  IF name = <<>> THEN attachRowsRootToo(groups, Tail(rows), paneRows)
             ELSE attachRowsRootToo(
                     IF best = 1 THEN one
                     ELSE [one EXCEPT ![1].Sessions = Append(@, sess)],
                     Tail(rows), paneRows)

\* Lines 1727-1757: append every reported session to its group.
RECURSIVE attachRows(_, _, _)
attachRows(groups, rows, paneRows) ==
    IF rows = <<>> THEN groups
    ELSE LET name == TrimSpace(rows[1].Name)
             workdir == TrimSpace(pathBySession(paneRows, name))
             sess == [Name |-> name, Workdir |-> workdir,
                      Attached |-> TrimSpace(rows[1].Attached) = <<"1">>,
                      Windows |-> atoiSafe(TrimSpace(rows[1].Windows))]
             best == bestGroup(groups, workdir)
         IN  IF name = <<>> THEN attachRows(groups, Tail(rows), paneRows)
             ELSE attachRows(
                     [groups EXCEPT ![best].Sessions = Append(@, sess)],
                     Tail(rows), paneRows)

\* groupedSessions that takes "no server running" for a failure.
groupedSessionsNoServerFails(skeleton, listErr, rows, paneRows) ==
    IF listErr # "" THEN [groups |-> <<>>, err |-> TRUE]
    ELSE IF rows = <<>> THEN [groups |-> skeleton, err |-> FALSE]
    ELSE LET base == IF skeleton = <<>> THEN <<RootGroup>> ELSE skeleton
             filled == attachRows(base, rows, paneRows)
         IN  [groups |-> [i \in 1..Len(filled) |->
                            [filled[i] EXCEPT !.Sessions = sortByName(@)]],
              err |-> FALSE]

\* groupedSessions, given what its collaborators return: the skeleton from
\* discoverRepoGroupsCached, the list-sessions rows or its error, and the
\* list-panes rows.  listErr is "" (no error), "noserver" or "other".
groupedSessions(skeleton, listErr, rows, paneRows) ==
    IF listErr = "noserver" THEN [groups |-> skeleton, err |-> FALSE]
    ELSE IF listErr # "" THEN [groups |-> <<>>, err |-> TRUE]
    ELSE IF rows = <<>> THEN [groups |-> skeleton, err |-> FALSE]
    ELSE LET base == IF skeleton = <<>> THEN <<RootGroup>> ELSE skeleton
             filled == attachRows(base, rows, paneRows)
         IN  [groups |-> [i \in 1..Len(filled) |->
                            [filled[i] EXCEPT !.Sessions = sortByName(@)]],
              err |-> FALSE]

(***************************************************************************)
(* The picker's model value and the functions of struct model              *)
(***************************************************************************)
Min(S) == CHOOSE x \in S : \A y \in S : x <= y

NoSession == [Name |-> <<>>, Workdir |-> <<>>, Attached |-> FALSE, Windows |-> 0]

\* groupWorkspaceName
groupWorkspaceName(g) ==
    LET ws == TrimSpace(g.Workspace)
    IN  IF ws = <<>> THEN <<"r", "o", "o", "t">> ELSE ws

\* currentSessions; selectedWorkspace and selectedSession keep Go's
\* zero-based values, groups[i + 1] is Go's groups[i].
currentSessions(mm) ==
    IF Len(mm.groups) = 0 \/ mm.selectedWorkspace < 0
       \/ mm.selectedWorkspace >= Len(mm.groups)
    THEN <<>>
    ELSE mm.groups[mm.selectedWorkspace + 1].Sessions

selectedSessionInfo(mm) ==
    LET cur == currentSessions(mm)
    IN  IF Len(cur) = 0 \/ mm.selectedSession < 0 \/ mm.selectedSession >= Len(cur)
        THEN [sel |-> NoSession, ok |-> FALSE]
        ELSE [sel |-> cur[mm.selectedSession + 1], ok |-> TRUE]

defaultSessionIndex(sessions) == IF Len(sessions) = 0 THEN -1 ELSE 0

\* captureActive that records the workspace and leaves activeSession.
captureActiveKeepsSession(mm) ==
    IF Len(mm.groups) = 0 \/ mm.selectedWorkspace < 0
       \/ mm.selectedWorkspace >= Len(mm.groups)
    THEN [mm EXCEPT !.activeWorkspace = <<>>, !.activeSession = <<>>]
    ELSE LET g == mm.groups[mm.selectedWorkspace + 1]
         IN  [mm EXCEPT !.preferredWorkspace = groupWorkspaceName(g),
                        !.activeWorkspace = g.Name]

captureActive(mm) ==
    IF Len(mm.groups) = 0 \/ mm.selectedWorkspace < 0
       \/ mm.selectedWorkspace >= Len(mm.groups)
    THEN [mm EXCEPT !.activeWorkspace = <<>>, !.activeSession = <<>>]
    ELSE LET g == mm.groups[mm.selectedWorkspace + 1]
             ws == groupWorkspaceName(g)
             cur == currentSessions(mm)
         IN  [mm EXCEPT
                !.preferredWorkspace = ws,
                !.activeWorkspace = g.Name,
                !.activeSession =
                    IF Len(cur) = 0 \/ mm.selectedSession < 0
                       \/ mm.selectedSession >= Len(cur)
                    THEN <<>>
                    ELSE cur[mm.selectedSession + 1].Name]

\* Clamp of an index into 0..n-1 as restoreSelection does it.
clampIndex(i, n) == IF i < 0 THEN 0 ELSE IF i >= n THEN n - 1 ELSE i

restoreSelection(mm) ==
    IF Len(mm.groups) = 0
    THEN [mm EXCEPT !.selectedWorkspace = 0, !.selectedSession = 0]
    ELSE LET byActive == {i \in 1..Len(mm.groups) :
                              mm.groups[i].Name = mm.activeWorkspace}
             byPreferred == {i \in 1..Len(mm.groups) :
                                groupWorkspaceName(mm.groups[i])
                                    = TrimSpace(mm.preferredWorkspace)}
             sw1 == IF mm.activeWorkspace # <<>> /\ byActive # {}
                    THEN Min(byActive) - 1
                    ELSE mm.selectedWorkspace
             sw2 == IF mm.activeWorkspace = <<>>
                       /\ TrimSpace(mm.preferredWorkspace) # <<>>
                       /\ byPreferred # {}
                    THEN Min(byPreferred) - 1
                    ELSE sw1
             sw == clampIndex(sw2, Len(mm.groups))
             m1 == [mm EXCEPT !.selectedWorkspace = sw]
             cur == currentSessions(m1)
             byName == {i \in 1..Len(cur) : cur[i].Name = mm.activeSession}
             ss1 == IF mm.activeSession # <<>> /\ byName # {}
                    THEN Min(byName) - 1
                    ELSE mm.selectedSession
         IN  IF Len(cur) = 0
             THEN captureActive([m1 EXCEPT !.selectedSession = -1])
             ELSE captureActive(
                     [m1 EXCEPT !.selectedSession = clampIndex(ss1, Len(cur))])

\* shiftRepo; repoOrder is 0..len(groups)-1 in order.
shiftRepo(mm, direction) ==
    IF Len(mm.groups) = 0 THEN [m |-> mm, ok |-> FALSE]
    ELSE LET n == Len(mm.groups)
             curPos == IF mm.selectedWorkspace \in 0..(n - 1)
                       THEN mm.selectedWorkspace ELSE 0
             next == (curPos + direction + n) % n
         IN  [m |-> captureActive(
                     [mm EXCEPT !.selectedWorkspace = next,
                                !.selectedSession =
                                    defaultSessionIndex(mm.groups[next + 1].Sessions)]),
              ok |-> TRUE]

\* The rows of shiftVertical: each repo row followed by its sessions.
RECURSIVE rowPositions(_, _)
rowPositions(groups, i) ==
    IF i > Len(groups) THEN <<>>
    ELSE <<[repo |-> i - 1, sess |-> -1]>>
         \o [k \in 1..Len(groups[i].Sessions) |-> [repo |-> i - 1, sess |-> k - 1]]
         \o rowPositions(groups, i + 1)

\* shiftVertical that stops at the first and the last row.
shiftVerticalNoWrap(mm, direction) ==
    IF Len(mm.groups) = 0 THEN [m |-> mm, ok |-> FALSE]
    ELSE LET positions == rowPositions(mm.groups, 1)
             n == Len(positions)
             hits == {i \in 1..n : positions[i].repo = mm.selectedWorkspace
                                   /\ positions[i].sess = mm.selectedSession}
             cur == IF hits = {} THEN 0 ELSE Min(hits) - 1
             next == clampIndex(cur + direction, n)
         IN  [m |-> captureActive(
                     [mm EXCEPT !.selectedWorkspace = positions[next + 1].repo,
                                !.selectedSession = positions[next + 1].sess]),
              ok |-> TRUE]

shiftVertical(mm, direction) ==
    IF Len(mm.groups) = 0 THEN [m |-> mm, ok |-> FALSE]
    ELSE LET positions == rowPositions(mm.groups, 1)
             n == Len(positions)
             hits == {i \in 1..n : positions[i].repo = mm.selectedWorkspace
                                   /\ positions[i].sess = mm.selectedSession}
             cur == IF hits = {} THEN 0 ELSE Min(hits) - 1
             next == (cur + direction + n) % n
         IN  [m |-> captureActive(
                     [mm EXCEPT !.selectedWorkspace = positions[next + 1].repo,
                                !.selectedSession = positions[next + 1].sess]),
              ok |-> TRUE]

buildMenuItems(mm) ==
    (IF selectedSessionInfo(mm).ok THEN <<"attach", "destroy">> ELSE <<>>)
    \o <<"refresh", "update", "quit">>

newSessionPath(mm) ==
    LET inRange == Len(mm.groups) > 0 /\ mm.selectedWorkspace >= 0
                   /\ mm.selectedWorkspace < Len(mm.groups)
        sel == selectedSessionInfo(mm)
    IN  IF inRange /\ TrimSpace(mm.groups[mm.selectedWorkspace + 1].Path) # <<>>
        THEN TrimSpace(mm.groups[mm.selectedWorkspace + 1].Path)
        ELSE IF sel.ok /\ TrimSpace(sel.sel.Workdir) # <<>> THEN sel.sel.Workdir
        ELSE <<"/">>

\* filepath.Base of a non-empty path.
Base(p) ==
    LET c == Clean(p)
        elems == SplitSep(c, "/", <<>>)
    IN  IF c = <<"/">> THEN c ELSE elems[Len(elems)]

newSessionRepo(mm) ==
    LET inRange == Len(mm.groups) > 0 /\ mm.selectedWorkspace >= 0
                   /\ mm.selectedWorkspace < Len(mm.groups)
        sel == selectedSessionInfo(mm)
    IN  IF inRange /\ TrimSpace(mm.groups[mm.selectedWorkspace + 1].Repo) # <<>>
        THEN TrimSpace(mm.groups[mm.selectedWorkspace + 1].Repo)
        ELSE IF sel.ok /\ TrimSpace(sel.sel.Workdir) # <<>>
        THEN Base(TrimSpace(sel.sel.Workdir))
        ELSE <<"s", "h">>

(***************************************************************************)
(* Preview lifecycle manager                                               *)
(***************************************************************************)
\* detectSoftAttachTarget, given what the environment answers: whether TMUX
\* is set, and the pane printed by display-message for the current client,
\* by display-message for the controlling tty and by list-panes -a (each
\* <<>> when the call fails or prints nothing).
detectSoftAttachTarget(e) ==
    IF e.inTmux
    THEN IF TrimSpace(e.cur) # <<>> THEN [target |-> TrimSpace(e.cur), ok |-> TRUE]
         ELSE [target |-> <<>>, ok |-> TRUE]
    ELSE IF TrimSpace(e.tty) # <<>> THEN [target |-> TrimSpace(e.tty), ok |-> TRUE]
    ELSE IF TrimSpace(e.any) # <<>> THEN [target |-> TrimSpace(e.any), ok |-> TRUE]
    ELSE [target |-> <<>>, ok |-> FALSE]

\* softAttachPreviewCmd: the command value.  anchored is history only: it
\* records whether detectSoftAttachTarget resolved an anchor.
softAttachPreviewCmd(currentPane, splitTarget, session, anchored) ==
    [kind |-> "soft", currentPane |-> currentPane, splitTarget |-> splitTarget,
     session |-> session, anchored |-> anchored]

\* The session previewCmdForSelection aims at, ok = FALSE when there is none.
previewTarget(mm) ==
    LET s == selectedSessionInfo(mm)
    IN  IF s.ok THEN s
        ELSE IF Len(mm.groups) = 0 \/ mm.selectedWorkspace < 0
                \/ mm.selectedWorkspace >= Len(mm.groups)
        THEN [sel |-> NoSession, ok |-> FALSE]
        ELSE IF Len(mm.groups[mm.selectedWorkspace + 1].Sessions) = 0
        THEN [sel |-> NoSession, ok |-> FALSE]
        ELSE [sel |-> mm.groups[mm.selectedWorkspace + 1].Sessions[1], ok |-> TRUE]

\* previewCmdForSelection without the check that the target is already
\* mirrored.
previewCmdForSelectionAlways(mm, e) ==
    LET t == previewTarget(mm)
        d == detectSoftAttachTarget(e)
    IN  IF ~t.ok THEN <<>>
        ELSE IF d.ok
        THEN <<softAttachPreviewCmd(mm.previewPane, d.target, t.sel.Name, TRUE)>>
        ELSE <<softAttachPreviewCmd(mm.previewPane, <<>>, t.sel.Name, FALSE)>>

\* previewCmdForSelection: the commands it returns (none or one).
previewCmdForSelection(mm, e) ==
    LET t == previewTarget(mm)
        d == detectSoftAttachTarget(e)
    IN  IF ~t.ok THEN <<>>
        ELSE IF mm.previewPane # <<>> /\ mm.previewSession = t.sel.Name THEN <<>>
        ELSE IF d.ok
        THEN <<softAttachPreviewCmd(mm.previewPane, d.target, t.sel.Name, TRUE)>>
        ELSE <<softAttachPreviewCmd(mm.previewPane, <<>>, t.sel.Name, FALSE)>>

\* cleanupSoftPreview that kills the pane and keeps the handle.
cleanupSoftPreviewKeepsHandle(mm) ==
    [m |-> mm,
     calls |-> IF TrimSpace(mm.previewPane) = <<>> THEN <<>>
               ELSE <<[call |-> "kill-pane", pane |-> TrimSpace(mm.previewPane)]>>]

\* cleanupSoftPreview with cleanupSoftPreviewPane: the new model and the
\* tmux calls made.
cleanupSoftPreview(mm) ==
    [m |-> [mm EXCEPT !.previewPane = <<>>, !.previewSession = <<>>],
     calls |-> IF TrimSpace(mm.previewPane) = <<>> THEN <<>>
               ELSE <<[call |-> "kill-pane", pane |-> TrimSpace(mm.previewPane)]>>]

(***************************************************************************)
(* Commands and messages                                                   *)
(***************************************************************************)
loadCmd == [kind |-> "load"]
updateCmd == [kind |-> "update"]
attachCmd(session) == [kind |-> "attach", session |-> session]
killSessionCmd(name) == [kind |-> "kill", name |-> name]

spawnAndAttachCmd(mm, commandName, command) ==
    [kind |-> "spawn", path |-> newSessionPath(mm), repo |-> newSessionRepo(mm),
     commandName |-> commandName, command |-> command]

\* What Update returns: the new model, the commands (tea.Batch of them),
\* the tmux calls made while handling, tea.Quit, and whether tickCmd is
\* among the commands.
Res(mm, c) ==
    [m |-> mm, cmds |-> c, calls |-> <<>>, quit |-> FALSE, tick |-> FALSE]

QuitRes(mm) ==
    LET c == cleanupSoftPreview(mm)
    IN  [m |-> c.m, cmds |-> <<>>, calls |-> c.calls, quit |-> TRUE, tick |-> FALSE]

\* status, cleanupSoftPreview, attachCmd: the full-attach tail shared by
\* Enter, the menu, quick attach and viewCreatedMsg.
AttachRes(mm, name, status) ==
    LET c == cleanupSoftPreview([mm EXCEPT !.status = status])
    IN  [m |-> c.m, cmds |-> <<attachCmd(name)>>, calls |-> c.calls,
         quit |-> FALSE, tick |-> FALSE]

(***************************************************************************)
(* model.Update                                                            *)
(***************************************************************************)
\* Lines 469-502: quick-select mode.
UpdateQuick(mm, msg) ==
    IF msg.type # "key" THEN Res(mm, <<>>)
    ELSE IF msg.key \in {"ctrl+c", "q", "esc"} THEN QuitRes(mm)
    ELSE IF msg.key \in {"up", "k"} THEN
        Res(IF mm.selectedQuick > 0
            THEN [mm EXCEPT !.selectedQuick = @ - 1] ELSE mm, <<>>)
    ELSE IF msg.key \in {"down", "j"} THEN
        Res(IF mm.selectedQuick < Len(mm.quickCandidates) - 1
            THEN [mm EXCEPT !.selectedQuick = @ + 1] ELSE mm, <<>>)
    ELSE IF msg.key = "enter" THEN
        IF Len(mm.quickCandidates) = 0 THEN QuitRes(mm)
        ELSE AttachRes(mm, mm.quickCandidates[mm.selectedQuick + 1].Session.Name,
                       "Attaching")
    ELSE Res(mm, <<>>)

\* Lines 526-563: Enter on a menu item.
UpdateMenuEnter(mm) ==
    IF Len(mm.menuItems) = 0 THEN Res([mm EXCEPT !.selectingMenu = FALSE], <<>>)
    ELSE LET key == mm.menuItems[mm.selectedMenu + 1]
             m1 == [mm EXCEPT !.selectingMenu = FALSE]
             sel == selectedSessionInfo(m1)
         IN  CASE key = "attach" ->
                    IF ~sel.ok THEN Res(m1, <<>>)
                    ELSE AttachRes(m1, sel.sel.Name, "Attaching")
               [] key = "refresh" ->
                    Res([m1 EXCEPT !.status = "Refreshing..."], <<loadCmd>>)
               [] key = "update" ->
                    IF m1.updateBusy THEN Res(m1, <<>>)
                    ELSE Res([m1 EXCEPT !.updateBusy = TRUE,
                                        !.status = "Updating from origin/main..."],
                             <<updateCmd>>)
               [] key = "destroy" ->
                    IF ~sel.ok THEN Res(m1, <<>>)
                    ELSE Res([m1 EXCEPT !.status = "Destroying"],
                             <<killSessionCmd(sel.sel.Name)>>)
               [] key = "quit" -> QuitRes(m1)
               [] OTHER -> Res(m1, <<>>)

\* Lines 504-567: menu mode.  Only key (and window size) messages are
\* handled; every other message returns the model unchanged and no command.
UpdateMenu(mm, msg) ==
    IF msg.type # "key" THEN Res(mm, <<>>)
    ELSE IF msg.key = "0" THEN
        Res([mm EXCEPT !.selectingMenu = FALSE, !.status = ""], <<>>)
    ELSE IF msg.key = "up" THEN
        Res(IF mm.selectedMenu > 0
            THEN [mm EXCEPT !.selectedMenu = @ - 1] ELSE mm, <<>>)
    ELSE IF msg.key = "down" THEN
        Res(IF mm.selectedMenu < Len(mm.menuItems) - 1
            THEN [mm EXCEPT !.selectedMenu = @ + 1] ELSE mm, <<>>)
    ELSE IF msg.key = "enter" THEN UpdateMenuEnter(mm)
    ELSE Res(mm, <<>>)

\* Lines 575-587.
\* The loadedMsg case without its error branch: a failed refresh installs
\* its (empty) groups like a successful one.
UpdateLoadedInstallsFailure(mm, msg, e) ==
    LET m1 == restoreSelection([mm EXCEPT !.groups = msg.groups])
        m2 == [m1 EXCEPT !.status = IF msg.err THEN "Refresh failed"
                                    ELSE IF Len(m1.groups) = 0
                                         THEN "No repo entries" ELSE "Loaded"]
    IN  Res(m2, previewCmdForSelection(m2, e))

UpdateLoaded(mm, msg, e) ==
    IF msg.err THEN Res([mm EXCEPT !.status = "Refresh failed"], <<>>)
    ELSE LET m1 == restoreSelection([mm EXCEPT !.groups = msg.groups])
             m2 == [m1 EXCEPT !.status = IF Len(m1.groups) = 0
                                         THEN "No repo entries" ELSE "Loaded"]
         IN  Res(m2, previewCmdForSelection(m2, e))

\* Lines 589-590.
UpdateTick(mm) ==
    [m |-> mm, cmds |-> <<loadCmd>>, calls |-> <<>>, quit |-> FALSE, tick |-> TRUE]

\* Lines 592-599.
UpdateAction(mm, msg) ==
    LET m1 == [mm EXCEPT !.updateBusy = FALSE]
    IN  IF msg.err THEN Res([m1 EXCEPT !.status = "Action failed"], <<>>)
        ELSE Res([m1 EXCEPT !.status = msg.status], <<loadCmd>>)

\* Lines 613-621.
UpdateViewCreated(mm, msg) ==
    IF msg.err THEN Res([mm EXCEPT !.status = "Action failed"], <<>>)
    ELSE AttachRes(mm, msg.name, "Opened split view")

\* Lines 641-648.
\* The softAttachMsg case that records pane and session of a failed
\* command as well.
UpdateSoftAttachRecordsFailure(mm, msg) ==
    Res([mm EXCEPT !.previewPane = msg.pane, !.previewSession = msg.session,
                   !.status = IF msg.err THEN "Soft attach failed" ELSE @],
        <<>>)

UpdateSoftAttach(mm, msg) ==
    IF msg.err THEN Res([mm EXCEPT !.status = "Soft attach failed"], <<>>)
    ELSE Res([mm EXCEPT !.previewPane = msg.pane, !.previewSession = msg.session],
             <<>>)

\* A selection key: when the shift reports a change, ask for the preview.
SelectionRes(r, e) ==
    IF r.ok THEN Res(r.m, previewCmdForSelection(r.m, e)) ELSE Res(r.m, <<>>)

\* Lines 720-730: keys "1".."9".
UpdateDigit(mm, idx, e) ==
    IF idx >= 0 /\ idx < Len(mm.groups)
    THEN LET m1 == captureActive(
                     [mm EXCEPT !.selectedWorkspace = idx,
                                !.selectedSession =
                                    defaultSessionIndex(mm.groups[idx + 1].Sessions)])
         IN  Res(m1, previewCmdForSelection(m1, e))
    ELSE Res(mm, <<>>)

SpawnCommand(key) ==
    CASE key = "o" -> [name |-> <<"o", "p", "e", "n", "c", "o", "d", "e">>,
                       command |-> "opencode"]
      [] key = "l" -> [name |-> <<"l", "a", "z", "y", "g", "i", "t">>,
                       command |-> "lazygit"]
      [] key = "c" -> [name |-> <<"c", "l", "a", "u", "d", "e", "-", "f", "u", "l", "l">>,
                       command |-> "IS_SANDBOX=1 claude --dangerously-skip-permissions"]
      [] key = "b" -> [name |-> <<"s", "h", "e", "l", "l">>, command |-> ""]

DigitKeys == {"1", "2", "3", "4", "5", "6", "7", "8", "9"}

\* Lines 664-740: keys in the main list.
UpdateKeyMain(mm, key, e) ==
    LET sel == selectedSessionInfo(mm)
    IN  CASE key = "ctrl+c" -> QuitRes(mm)
          [] key = "d" ->
                IF ~sel.ok THEN Res(mm, <<>>)
                ELSE Res([mm EXCEPT !.status = "Destroying"],
                         <<killSessionCmd(sel.sel.Name)>>)
          [] key = "0" ->
                Res([mm EXCEPT !.menuItems = buildMenuItems(mm), !.selectedMenu = 0,
                               !.selectingMenu = TRUE, !.status = "Menu"], <<>>)
          [] key \in {"tab", "right"} -> SelectionRes(shiftRepo(mm, 1), e)
          [] key \in {"shift+tab", "left"} -> SelectionRes(shiftRepo(mm, -1), e)
          [] key = "up" -> SelectionRes(shiftVertical(mm, -1), e)
          [] key = "down" -> SelectionRes(shiftVertical(mm, 1), e)
          [] key = "enter" ->
                IF ~sel.ok THEN Res(mm, <<>>)
                ELSE AttachRes(mm, sel.sel.Name, "Attaching")
          [] key \in DigitKeys -> UpdateDigit(mm, DigitVal(key) - 1, e)
          [] key \in {"o", "l", "c", "b"} ->
                Res(mm, <<spawnAndAttachCmd(mm, SpawnCommand(key).name,
                                            SpawnCommand(key).command)>>)
          [] OTHER -> Res(mm, <<>>)

\* Lines 569-743: the main list.
UpdateMain(mm, msg, e) ==
    CASE msg.type = "loaded" -> UpdateLoaded(mm, msg, e)
      [] msg.type = "tick" -> UpdateTick(mm)
      [] msg.type = "action" -> UpdateAction(mm, msg)
      [] msg.type = "viewCreated" -> UpdateViewCreated(mm, msg)
      [] msg.type = "softAttach" -> UpdateSoftAttach(mm, msg)
      [] msg.type = "key" -> UpdateKeyMain(mm, msg.key, e)
      [] OTHER -> Res(mm, <<>>)

\* Update: selectingRemote and selectingNew are never set by this program
\* (no statement assigns true to them), so their branches are not taken.
Update(mm, msg, e) ==
    IF mm.selectingQuick THEN UpdateQuick(mm, msg)
    ELSE IF mm.selectingMenu THEN UpdateMenu(mm, msg)
    ELSE UpdateMain(mm, msg, e)

(***************************************************************************)
(* Session names                                                           *)
(***************************************************************************)
ToLowerChar(c) == IF c = "A" THEN "a" ELSE IF c = "B" THEN "b" ELSE c

ToLower(s) == [i \in 1..Len(s) |-> ToLowerChar(s[i])]

IsLowerAlnum(c) ==
    \/ Ord(c) >= Ord("a") /\ Ord(c) <= Ord("z")
    \/ Ord(c) >= Ord("0") /\ Ord(c) <= Ord("9")

RECURSIVE TrimDashLeft(_)
TrimDashLeft(s) == IF s # <<>> /\ s[1] = "-" THEN TrimDashLeft(Tail(s)) ELSE s

RECURSIVE TrimDashRight(_)
TrimDashRight(s) ==
    IF s # <<>> /\ s[Len(s)] = "-"
    THEN TrimDashRight(SubSeq(s, 1, Len(s) - 1)) ELSE s

RECURSIVE sanitizeScan(_, _, _)
sanitizeScan(s, acc, lastDash) ==
    IF s = <<>> THEN acc
    ELSE IF IsLowerAlnum(s[1]) THEN sanitizeScan(Tail(s), Append(acc, s[1]), FALSE)
    ELSE IF ~lastDash THEN sanitizeScan(Tail(s), Append(acc, "-"), TRUE)
    ELSE sanitizeScan(Tail(s), acc, lastDash)

sanitizeSessionToken(s) ==
    LET t == ToLower(TrimSpace(s))
    IN  IF t = <<>> THEN <<>>
        ELSE TrimDashRight(TrimDashLeft(sanitizeScan(t, <<>>, FALSE)))

\* fmt.Sprintf("%d", n) for n >= 0.
RECURSIVE Itoa(_)
Itoa(n) ==
    IF n < 10 THEN <<Alphabet[Ord("0") + n]>>
    ELSE Itoa(n \div 10) \o <<Alphabet[Ord("0") + (n % 10)]>>

Max(S) == CHOOSE x \in S : \A y \in S : x >= y

\* nextSessionNumber that counts the sessions with the prefix.
nextSessionNumberCounts(prefix, listErr, names) ==
    IF listErr = "noserver" THEN [n |-> 1, err |-> FALSE]
    ELSE IF listErr # "" THEN [n |-> 0, err |-> TRUE]
    ELSE [n |-> Cardinality({x \in names : HasPrefix(TrimSpace(x), prefix)}) + 1,
          err |-> FALSE]

\* nextSessionNumber, given the list-sessions answer: its error ("" none,
\* "noserver", "other") and the session names it printed.
nextSessionNumber(prefix, listErr, names) ==
    IF listErr = "noserver" THEN [n |-> 1, err |-> FALSE]
    ELSE IF listErr # "" THEN [n |-> 0, err |-> TRUE]
    ELSE LET nums == {atoiSafe(SubSeq(TrimSpace(sn), Len(prefix) + 1,
                                      Len(TrimSpace(sn)))) :
                          sn \in {x \in names : HasPrefix(TrimSpace(x), prefix)}}
         IN  [n |-> Max(nums \cup {0}) + 1, err |-> FALSE]

Truncate(s, n) == IF Len(s) > n THEN SubSeq(s, 1, n) ELSE s

buildSessionName(repo, commandName, listErr, names) ==
    LET r0 == sanitizeSessionToken(repo)
        c0 == sanitizeSessionToken(commandName)
        repoToken == Truncate(IF r0 = <<>> THEN <<"r", "e", "p", "o">> ELSE r0, 24)
        cmdToken == Truncate(IF c0 = <<>> THEN <<"s", "h", "e", "l", "l">> ELSE c0, 12)
        prefix == repoToken \o <<"-">> \o cmdToken \o <<"-">>
        nx == nextSessionNumber(prefix, listErr, names)
    IN  IF nx.err THEN [name |-> <<>>, err |-> TRUE]
        ELSE [name |-> prefix \o Itoa(nx.n), err |-> FALSE]

(***************************************************************************)
(* Discovery of the group skeleton                                         *)
(***************************************************************************)
GitRoot == <<"/", "g">>

\* discoverRepoGroups that returns no group when the listing fails.
discoverRepoGroupsFailsEmpty(dirErr, repos) ==
    IF dirErr THEN <<>>
    ELSE <<RootGroup>>
         \o sortByName([i \in 1..Len(repos) |-> RepoGroup(GitRoot, repos[i])])

\* discoverRepoGroups, given the answer of remoteListDirNames.
discoverRepoGroups(dirErr, repos) ==
    IF dirErr THEN <<RootGroup>>
    ELSE <<RootGroup>>
         \o sortByName([i \in 1..Len(repos) |-> RepoGroup(GitRoot, repos[i])])

ClearSessions(groups) ==
    [i \in 1..Len(groups) |-> [groups[i] EXCEPT !.Sessions = <<>>]]

\* discoverRepoGroupsCached that stores the skeleton without its repo
\* groups.
discoverRepoGroupsCachedDropsRepos(cache, dirErr, repos) ==
    IF cache # <<>> THEN [groups |-> ClearSessions(cache), cache |-> cache]
    ELSE LET g == discoverRepoGroups(dirErr, repos)
         IN  [groups |-> ClearSessions(g), cache |-> <<g[1]>>]

\* discoverRepoGroupsCached: cache is repoGroupCache["local"], <<>> while
\* the key is absent (a stored skeleton always has the root group).
discoverRepoGroupsCached(cache, dirErr, repos) ==
    IF cache # <<>> THEN [groups |-> ClearSessions(cache), cache |-> cache]
    ELSE LET g == discoverRepoGroups(dirErr, repos)
         IN  [groups |-> ClearSessions(g), cache |-> g]

\* A cache entry that shares its groups with the slice handed to the
\* caller: what the caller appends shows in the entry.
cacheEntryShared(stored, returned) ==
    IF returned = <<>> THEN stored ELSE returned

\* The cache entry after the caller has attached sessions to the groups it
\* was handed.  The entry (line 1830-1832) and the slice of a cache hit
\* (line 1818-1819) are copies made with copy(), so the entry is as stored.
cacheEntry(stored, returned) == stored

\* groupedSessions with the cache it reads and fills: the result, the
\* skeleton discoverRepoGroupsCached handed out, whether that was a cache
\* hit, and the cache entry afterwards.
groupedSessionsWithCache(cache, dirErr, repos, listErr, rows, paneRows) ==
    LET d == discoverRepoGroupsCached(cache, dirErr, repos)
        res == groupedSessions(d.groups, listErr, rows, paneRows)
    IN  [res |-> res, skeleton |-> d.groups, hit |-> cache # <<>>,
         cache |-> cacheEntry(d.cache, res.groups)]

(***************************************************************************)
(* The tmux server                                                         *)
(***************************************************************************)
\* The identifier tmux prints for its n-th pane.
PaneId(n) == <<"%">> \o Itoa(n)

PaneAlive(tm, pane) == \E p \in tm.panes : PaneId(p.id) = pane

\* shellQuote: the characters that make it quote, among those of Alphabet.
ShellSpecial == {" "}

shellQuote(s) ==
    IF s = <<>> THEN <<"'", "'">>
    ELSE IF \A i \in 1..Len(s) : s[i] \notin ShellSpecial THEN s
    ELSE <<"'">> \o s \o <<"'">>

\* softAttachPaneCommand for the local target: the command line, as one
\* string, that the preview pane runs.
softAttachPaneCommand(session) ==
    <<"T", "M", "U", "X", "=", " ", "t", "m", "u", "x", " ", "a", "t", "t", "a", "c", "h", "-", "s", "e", "s", "s", "i", "o", "n", " ", "-", "t", " ">>
    \o shellQuote(session)

\* The command line running in preview pane p: ensureSoftPreviewPane hands
\* softAttachPaneCommand(session) to split-window and respawn-pane.
PaneCommand(p) == softAttachPaneCommand(p.session)

\* tmuxAttachCmd for the local target: the argument vector of the command
\* (cmd.Args), whether or not TMUX is set.
tmuxAttachCmd(session, inTmux) ==
    <<<<"t", "m", "u", "x">>, <<"a", "t", "t", "a", "c", "h", "-", "s", "e", "s", "s", "i", "o", "n">>, <<"-", "t">>, session>>

\* ensureSoftPreviewPane run against tmux state tm.  respawnOk and splitOk
\* say whether respawn-pane and split-window succeed.  Returns the pane and
\* error of the Go function, the tmux calls made and the new tmux state.
ensureSoftPreviewPane(tm, currentPane, splitTarget, session, respawnOk, splitOk) ==
    LET pane == TrimSpace(currentPane)
        display == [call |-> "display-message", pane |-> pane]
        respawn == [call |-> "respawn-pane", pane |-> pane]
        split == [call |-> "split-window", pane |-> TrimSpace(splitTarget)]
    IN  IF pane # <<>> /\ PaneAlive(tm, pane)
        THEN IF respawnOk
             THEN [pane |-> pane, err |-> FALSE, calls |-> <<display, respawn>>,
                   tmux |-> [tm EXCEPT !.panes =
                               {IF PaneId(p.id) = pane
                                THEN [p EXCEPT !.session = session] ELSE p :
                                    p \in tm.panes}]]
             ELSE [pane |-> <<>>, err |-> TRUE, calls |-> <<display, respawn>>,
                   tmux |-> tm]
        ELSE LET calls == (IF pane # <<>> THEN <<display>> ELSE <<>>) \o <<split>>
             IN  IF splitOk
                 THEN [pane |-> TrimSpace(PaneId(tm.nextPane)), err |-> FALSE,
                       calls |-> calls,
                       tmux |-> [tm EXCEPT
                                   !.panes = @ \cup {[id |-> tm.nextPane,
                                                      session |-> session]},
                                   !.nextPane = @ + 1]]
                 ELSE [pane |-> <<>>, err |-> TRUE, calls |-> calls, tmux |-> tm]

\* tmux kill-pane -t pane.
KillPane(tm, pane) ==
    [tm EXCEPT !.panes = {p \in tm.panes : PaneId(p.id) # pane}]

RECURSIVE ApplyCalls(_, _)
ApplyCalls(tm, calls) ==
    IF calls = <<>> THEN tm
    ELSE ApplyCalls(IF calls[1].call = "kill-pane"
                    THEN KillPane(tm, calls[1].pane) ELSE tm, Tail(calls))

SessionNamesOf(tm) == {x.Name : x \in tm.sessions}

\* The error of list-sessions: tmux without sessions has no server.
ListErrs(tm) == (IF tm.sessions = {} THEN {"noserver"} ELSE {""}) \cup {"other"}

(***************************************************************************)
(* Match/score engine                                                      *)
(***************************************************************************)
RECURSIVE normalizeScan(_, _, _)
normalizeScan(s, acc, space) ==
    IF s = <<>> THEN acc
    ELSE IF IsLowerAlnum(s[1]) THEN normalizeScan(Tail(s), Append(acc, s[1]), FALSE)
    ELSE IF ~space THEN normalizeScan(Tail(s), Append(acc, " "), TRUE)
    ELSE normalizeScan(Tail(s), acc, space)

normalizeForMatch(s) ==
    LET t == ToLower(TrimSpace(s))
    IN  IF t = <<>> THEN <<>> ELSE TrimSpace(normalizeScan(t, <<>>, FALSE))

\* strings.Fields on a string whose only white space is " ".
Fields(t) == SelectSeq(SplitSep(t, " ", <<>>), LAMBDA f : f # <<>>)

\* strings.Contains
Contains(hay, p) ==
    \E i \in 1..(Len(hay) + 1) :
        i + Len(p) - 1 <= Len(hay) /\ SubSeq(hay, i, i + Len(p) - 1) = p

RECURSIVE subseq(_, _)
subseq(hay, needle) ==
    IF needle = <<>> THEN TRUE
    ELSE IF hay = <<>> THEN FALSE
    ELSE IF hay[1] = needle[1] THEN subseq(Tail(hay), Tail(needle))
    ELSE subseq(Tail(hay), needle)

\* scoreParts that passes over a token that fails both tests.
RECURSIVE scorePartsSkipsMisses(_, _, _)
scorePartsSkipsMisses(parts, hay, score) ==
    IF parts = <<>> THEN [score |-> score, ok |-> TRUE]
    ELSE IF Contains(hay, parts[1])
    THEN scorePartsSkipsMisses(Tail(parts), hay, score + 10 + Len(parts[1]))
    ELSE IF subseq(hay, parts[1])
    THEN scorePartsSkipsMisses(Tail(parts), hay, score + 4 + Len(parts[1]))
    ELSE scorePartsSkipsMisses(Tail(parts), hay, score)

\* scoreParts that tries the subsequence test before the substring test.
RECURSIVE scorePartsSubseqFirst(_, _, _)
scorePartsSubseqFirst(parts, hay, score) ==
    IF parts = <<>> THEN [score |-> score, ok |-> TRUE]
    ELSE IF subseq(hay, parts[1])
    THEN scorePartsSubseqFirst(Tail(parts), hay, score + 4 + Len(parts[1]))
    ELSE IF Contains(hay, parts[1])
    THEN scorePartsSubseqFirst(Tail(parts), hay, score + 10 + Len(parts[1]))
    ELSE [score |-> 0, ok |-> FALSE]

\* Lines 278-289: the loop over the tokens of the query.
RECURSIVE scoreParts(_, _, _)
scoreParts(parts, hay, score) ==
    IF parts = <<>> THEN [score |-> score, ok |-> TRUE]
    ELSE IF Contains(hay, parts[1])
    THEN scoreParts(Tail(parts), hay, score + 10 + Len(parts[1]))
    ELSE IF subseq(hay, parts[1])
    THEN scoreParts(Tail(parts), hay, score + 4 + Len(parts[1]))
    ELSE [score |-> 0, ok |-> FALSE]

scoreSessionMatch(tokens, g, s) ==
    LET t == normalizeForMatch(JoinSep(tokens, " "))
        parts == Fields(t)
        hay == normalizeForMatch(
                   JoinSep(<<s.Name, g.Name, g.Workspace, g.Repo, s.Workdir>>, " "))
        r == scoreParts(parts, hay, 0)
    IN  IF t = <<>> \/ Len(parts) = 0 THEN [score |-> 0, ok |-> FALSE]
        ELSE IF ~r.ok THEN r
        ELSE IF Contains(hay, normalizeForMatch(s.Name))
        THEN [score |-> r.score + 3, ok |-> TRUE]
        ELSE r

\* A less function that compares the scores alone.
candidateLessScoreOnly(a, b) == a.Score > b.Score

\* The less function of the sort in findQuickCandidates.
candidateLess(a, b) ==
    IF a.Score # b.Score THEN a.Score > b.Score
    ELSE IF a.Session.Name # b.Session.Name THEN StrLess(a.Session.Name, b.Session.Name)
    ELSE IF a.Workspace # b.Workspace THEN StrLess(a.Workspace, b.Workspace)
    ELSE StrLess(a.Repo, b.Repo)

RECURSIVE insertCandidate(_, _)
insertCandidate(sorted, c) ==
    IF sorted = <<>> THEN <<c>>
    ELSE IF candidateLess(c, sorted[1]) THEN <<c>> \o sorted
    ELSE <<sorted[1]>> \o insertCandidate(Tail(sorted), c)

RECURSIVE sortCandidates(_)
sortCandidates(cs) ==
    IF cs = <<>> THEN <<>>
    ELSE insertCandidate(sortCandidates(SubSeq(cs, 1, Len(cs) - 1)), cs[Len(cs)])

\* The matching candidates of one group, in session order.
groupCandidates(tokens, g) ==
    LET hit == SelectSeq(g.Sessions, LAMBDA x : scoreSessionMatch(tokens, g, x).ok)
    IN  [k \in 1..Len(hit) |->
            [Workspace |-> groupWorkspaceName(g), Repo |-> g.Repo,
             Session |-> hit[k], Score |-> scoreSessionMatch(tokens, g, hit[k]).score]]

RECURSIVE allCandidates(_, _, _)
allCandidates(tokens, groups, i) ==
    IF i > Len(groups) THEN <<>>
    ELSE groupCandidates(tokens, groups[i]) \o allCandidates(tokens, groups, i + 1)

\* findQuickCandidates, given the result of groupedSessions.
findQuickCandidates(tokens, grouped) ==
    IF grouped.err THEN [out |-> <<>>, err |-> TRUE]
    ELSE [out |-> sortCandidates(allCandidates(tokens, grouped.groups, 1)),
          err |-> FALSE]

(***************************************************************************)
(* Grouping check: groupedSessions applied to drawn inputs                 *)
(***************************************************************************)
PathChars == {"/", "a", "b"}

\* Every string over PathChars of at most n characters.
RECURSIVE StringsUpTo(_)
StringsUpTo(n) ==
    IF n = 0 THEN {<<>>}
    ELSE LET shorter == StringsUpTo(n - 1)
         IN  shorter \cup {Append(s, c) : s \in {t \in shorter : Len(t) = n - 1},
                                          c \in PathChars}

\* Root paths of repo groups: clean absolute paths, as filepath.Join makes
\* them; nested ones and ones that share a name prefix are included.
GroupRootPaths ==
    {<<"/", "a">>, <<"/", "a", "/", "b">>, <<"/", "b">>, <<"/", "a", "b">>}

\* A skeleton with the root group first and one repo group per path.
SkeletonOf(paths) ==
    <<RootGroup>> \o
    [i \in 1..Len(paths) |->
        [Workspace |-> <<"g", "i", "t">>, Repo |-> Tail(paths[i]),
         Name |-> <<"g", "i", "t">> \o paths[i], Path |-> paths[i],
         Sessions |-> <<>>]]

SessionNames == {<<"x">>, <<"y">>, <<"z">>}

\* Working directories of the multi-session reports; <<>> is "unknown".
WorkdirSamples == {<<>>, <<"/", "a", "/", "b">>, <<"/", "b", "/", "a">>}

\* Sequences without repetition over a set.
RECURSIVE Arrangements(_)
Arrangements(S) ==
    IF S = {} THEN {<<>>}
    ELSE {<<>>} \cup UNION {{<<x>> \o t : t \in Arrangements(S \ {x})} : x \in S}

ReportRow(name) == [Name |-> name, Attached |-> <<"0">>, Windows |-> <<"1">>]

\* list-panes rows of one session: pane 1 first, then pane 0 with the
\* working directory; a session of unknown directory has no pane 0 row.
PaneRowsOf(name, wd) ==
    <<[Name |-> name, Index |-> <<"1">>, Path |-> <<"/", "b">>]>> \o
    (IF wd = <<>> THEN <<>>
     ELSE <<[Name |-> name, Index |-> <<"0">>, Path |-> wd]>>)

RECURSIVE PaneRowsFor(_, _)
PaneRowsFor(names, wdOf) ==
    IF names = <<>> THEN <<>>
    ELSE PaneRowsOf(names[1], wdOf[names[1]]) \o PaneRowsFor(Tail(names), wdOf)

GroupInputs ==
    {[skeleton |-> SkeletonOf(<<p1, p2>>), listErr |-> "",
      rows |-> <<ReportRow(<<"x">>)>>,
      paneRows |-> PaneRowsOf(<<"x">>, wd)] :
        p1 \in GroupRootPaths, p2 \in GroupRootPaths, wd \in StringsUpTo(MaxPathLen)}
    \cup
    {[skeleton |-> SkeletonOf(<<p1, p2>>), listErr |-> e,
      rows |-> [i \in 1..Len(names) |-> ReportRow(names[i])],
      paneRows |-> PaneRowsFor(names, wdOf)] :
        p1 \in {<<"/", "a">>}, p2 \in {<<"/", "a", "/", "b">>, <<"/", "b">>},
        e \in {"", "noserver", "other"},
        names \in Arrangements(SessionNames),
        wdOf \in [SessionNames -> WorkdirSamples]}

IdleModel ==
    [groups |-> <<>>, selectedWorkspace |-> 0, selectedSession |-> 0,
     selectingMenu |-> FALSE, menuItems |-> <<>>, selectedMenu |-> 0,
     preferredWorkspace |-> <<>>, activeWorkspace |-> <<>>,
     activeSession |-> <<>>, previewSession |-> <<>>, previewPane |-> <<>>,
     updateBusy |-> FALSE, status |-> "Loading sessions...",
     selectingQuick |-> FALSE, quickCandidates |-> <<>>, selectedQuick |-> 0]

NoTmux == [sessions |-> {}, panes |-> {}, nextPane |-> 1, inTmux |-> FALSE]

NoStep == <<>>

InitGroup ==
    /\ gIn \in GroupInputs
    /\ gOut = [groups |-> <<>>, err |-> FALSE]
    /\ gPc = "in"
    /\ m = IdleModel
    /\ running = FALSE
    /\ cmds = EmptyBag
    /\ msgs = EmptyBag
    /\ tickTimer = FALSE
    /\ tmux = NoTmux
    /\ repoGroupCache = <<>>
    /\ keys = 0
    /\ last = NoStep

GroupCall ==
    /\ gPc = "in"
    /\ gOut' = groupedSessions(gIn.skeleton, gIn.listErr, gIn.rows, gIn.paneRows)
    /\ gPc' = "out"
    /\ UNCHANGED <<m, running, cmds, msgs, tickTimer, tmux, repoGroupCache,
                   keys, last, gIn>>

NextGroup == GroupCall

SpecGroup == InitGroup /\ [][NextGroup]_vars

(***************************************************************************)
(* Score check: scoreSessionMatch applied to drawn inputs                  *)
(***************************************************************************)
\* Query tokens: "op", "la", "sh", "lz" (in order in "lazygit", not
\* contiguous), "zz" (in no candidate), "o.p" (two tokens once
\* normalized) and the empty token.
ScoreTokens ==
    {<<>>, <<"o", "p">>, <<"l", "a">>, <<"s", "h">>, <<"l", "z">>, <<"z", "z">>, <<"o", ".", "p">>}

ScoreQueries ==
    {<<>>} \cup {<<a>> : a \in ScoreTokens}
           \cup {<<a, b>> : a \in ScoreTokens, b \in ScoreTokens}

ScoreGroup(repo) ==
    [Workspace |-> <<"g", "i", "t">>, Repo |-> repo,
     Name |-> <<"g", "i", "t", "/">> \o repo,
     Path |-> <<"/", "r", "o", "o", "t", "/", "g", "i", "t", "/">> \o repo,
     Sessions |-> <<>>]

ScoreSession(name, repo) ==
    [Name |-> name,
     Workdir |-> <<"/", "r", "o", "o", "t", "/", "g", "i", "t", "/">> \o repo,
     Attached |-> FALSE, Windows |-> 1]

Opasdf == <<"o", "p", "a", "s", "d", "f">>
Tools == <<"t", "o", "o", "l", "s">>
OpasdfLazygit == <<"o", "p", "a", "s", "d", "f", "-", "l", "a", "z", "y", "g", "i", "t", "-", "1">>
OpasdfShell == <<"o", "p", "a", "s", "d", "f", "-", "s", "h", "e", "l", "l", "-", "1">>
ToolsLazygit == <<"t", "o", "o", "l", "s", "-", "l", "a", "z", "y", "g", "i", "t", "-", "1">>
MainSession == <<"m", "a", "i", "n">>

\* The candidates: sessions opasdf-lazygit-1, opasdf-shell-1 and main (a
\* session not named after its repo) of repo opasdf, session
\* tools-lazygit-1 of repo tools.
ScoreCandidates ==
    {[g |-> ScoreGroup(Opasdf), s |-> ScoreSession(OpasdfLazygit, Opasdf)],
     [g |-> ScoreGroup(Opasdf), s |-> ScoreSession(OpasdfShell, Opasdf)],
     [g |-> ScoreGroup(Opasdf), s |-> ScoreSession(MainSession, Opasdf)],
     [g |-> ScoreGroup(Tools), s |-> ScoreSession(ToolsLazygit, Tools)]}

InitScore ==
    /\ \E q \in ScoreQueries, c \in ScoreCandidates :
          gIn = [tokens |-> q, g |-> c.g, s |-> c.s]
    /\ gOut = [score |-> 0, ok |-> FALSE]
    /\ gPc = "in"
    /\ m = IdleModel
    /\ running = FALSE
    /\ cmds = EmptyBag
    /\ msgs = EmptyBag
    /\ tickTimer = FALSE
    /\ tmux = NoTmux
    /\ repoGroupCache = <<>>
    /\ keys = 0
    /\ last = NoStep

ScoreCall ==
    /\ gPc = "in"
    /\ gOut' = scoreSessionMatch(gIn.tokens, gIn.g, gIn.s)
    /\ gPc' = "out"
    /\ UNCHANGED <<m, running, cmds, msgs, tickTimer, tmux, repoGroupCache,
                   keys, last, gIn>>

NextScore == ScoreCall

SpecScore == InitScore /\ [][NextScore]_vars

(***************************************************************************)
(* Quick-attach check: findQuickCandidates applied to drawn inputs         *)
(***************************************************************************)
QuickNames == {<<"a", "b">>, <<"b">>, <<"b", "a">>}

\* Queries: b is in every name, ab is a substring of one name and a
\* subsequence of other haystacks, gi is in the repo groups' workspace
\* only, zz is nowhere.
QuickQueries ==
    {<< <<"b">> >>, << <<"a", "b">> >>, << <<"a">>, <<"b">> >>,
     << <<"g", "i">> >>, << <<"z", "z">> >>}

QuickInputs ==
    {[tokens |-> q,
      skeleton |-> SkeletonOf(<< <<"/", "a">>, <<"/", "b">> >>),
      listErr |-> e,
      rows |-> [i \in 1..Len(names) |-> ReportRow(names[i])],
      paneRows |-> PaneRowsFor(names, wdOf)] :
        q \in QuickQueries, e \in {"", "other"},
        names \in Arrangements(QuickNames),
        wdOf \in [QuickNames -> WorkdirSamples]}

InitQuick ==
    /\ gIn \in QuickInputs
    /\ gOut = [out |-> <<>>, err |-> FALSE]
    /\ gPc = "in"
    /\ m = IdleModel
    /\ running = FALSE
    /\ cmds = EmptyBag
    /\ msgs = EmptyBag
    /\ tickTimer = FALSE
    /\ tmux = NoTmux
    /\ repoGroupCache = <<>>
    /\ keys = 0
    /\ last = NoStep

QuickCall ==
    /\ gPc = "in"
    /\ gOut' = findQuickCandidates(gIn.tokens,
                    groupedSessions(gIn.skeleton, gIn.listErr, gIn.rows,
                                    gIn.paneRows))
    /\ gPc' = "out"
    /\ UNCHANGED <<m, running, cmds, msgs, tickTimer, tmux, repoGroupCache,
                   keys, last, gIn>>

NextQuick == QuickCall

SpecQuick == InitQuick /\ [][NextQuick]_vars

(***************************************************************************)
(* Naming check: buildSessionName applied to drawn inputs                  *)
(***************************************************************************)
\* Repositories: a, "A b" (sanitized to a-b) and the empty name.
NameRepos == {<<"a">>, <<"A", " ", "b">>, <<>>}

\* Command names: shell and the empty name.
NameCommands == {<<"s", "h", "e", "l", "l">>, <<>>}

\* Names tmux may list: numbered names of a-shell-, one with a leading
\* zero, two whose suffix is not a number, one of another prefix and one
\* without a prefix.
NameSamples ==
    {<<"a", "-", "s", "h", "e", "l", "l", "-", "1">>,
     <<"a", "-", "s", "h", "e", "l", "l", "-", "2">>,
     <<"a", "-", "s", "h", "e", "l", "l", "-", "1", "0">>,
     <<"a", "-", "s", "h", "e", "l", "l", "-", "0", "3">>,
     <<"a", "-", "s", "h", "e", "l", "l", "-", "2", "x">>,
     <<"a", "-", "s", "h", "e", "l", "l", "-", "x">>,
     <<"a", "-", "b", "-", "s", "h", "e", "l", "l", "-", "1">>,
     <<"x">>}

NameInputs ==
    {[repo |-> r, commandName |-> c, listErr |-> e, names |-> ns] :
        r \in NameRepos, c \in NameCommands, e \in {"", "noserver", "other"},
        ns \in SUBSET NameSamples}

InitName ==
    /\ gIn \in {x \in NameInputs : (x.listErr = "noserver") => (x.names = {})}
    /\ gOut = [name |-> <<>>, err |-> FALSE]
    /\ gPc = "in"
    /\ m = IdleModel
    /\ running = FALSE
    /\ cmds = EmptyBag
    /\ msgs = EmptyBag
    /\ tickTimer = FALSE
    /\ tmux = NoTmux
    /\ repoGroupCache = <<>>
    /\ keys = 0
    /\ last = NoStep

NameCall ==
    /\ gPc = "in"
    /\ gOut' = buildSessionName(gIn.repo, gIn.commandName, gIn.listErr, gIn.names)
    /\ gPc' = "out"
    /\ UNCHANGED <<m, running, cmds, msgs, tickTimer, tmux, repoGroupCache,
                   keys, last, gIn>>

NextName == NameCall

SpecName == InitName /\ [][NextName]_vars

(***************************************************************************)
(* Navigation check: shiftVertical applied to drawn selections             *)
(***************************************************************************)
\* The group lists groupedSessions builds for repositories /a and /b from
\* the reports of up to three sessions.
NavGroups ==
    {groupedSessions(SkeletonOf(<< <<"/", "a">>, <<"/", "b">> >>), "",
                     [i \in 1..Len(names) |-> ReportRow(names[i])],
                     PaneRowsFor(names, wdOf)).groups :
        names \in Arrangements(SessionNames),
        wdOf \in [SessionNames -> WorkdirSamples]}

\* A model showing groups g with the row (repo, sess) selected.
NavModel(g, repo, sess) ==
    captureActive([IdleModel EXCEPT !.groups = g, !.selectedWorkspace = repo,
                                    !.selectedSession = sess])

InitNav ==
    /\ \E g \in NavGroups :
          \E repo \in 0..(Len(g) - 1) :
              \E sess \in -1..(Len(g[repo + 1].Sessions) - 1) :
                  m = NavModel(g, repo, sess)
    /\ gIn = <<>>
    /\ gOut = <<>>
    /\ gPc = "in"
    /\ running = FALSE
    /\ cmds = EmptyBag
    /\ msgs = EmptyBag
    /\ tickTimer = FALSE
    /\ tmux = NoTmux
    /\ repoGroupCache = <<>>
    /\ keys = 0
    /\ last = NoStep

\* The key "down" and the key "up" in the session list; gPc names the key.
NavDown ==
    /\ m' = shiftVertical(m, 1).m
    /\ gPc' = "down"
    /\ UNCHANGED <<running, cmds, msgs, tickTimer, tmux, repoGroupCache, keys,
                   last, gIn, gOut>>

NavUp ==
    /\ m' = shiftVertical(m, -1).m
    /\ gPc' = "up"
    /\ UNCHANGED <<running, cmds, msgs, tickTimer, tmux, repoGroupCache, keys,
                   last, gIn, gOut>>

NextNav == NavDown \/ NavUp

SpecNav == InitNav /\ [][NextNav]_vars

(***************************************************************************)
(* Discovery check: groupedSessions called again and again, with the       *)
(* cache it leaves behind                                                  *)
(***************************************************************************)
\* Sessions of the discovery check and their working directories.
DiscoverNames == {<<"x">>, <<"y">>}

DiscoverWorkdirs ==
    {<<>>, <<"/", "g", "/", "a">>, <<"/", "g", "/", "b">>}

\* What one call meets: the directory listing (or its failure), the
\* list-sessions rows in any order (or its failure) and the list-panes
\* rows.
DiscoverInputs ==
    {[dirErr |-> de, repos |-> rp, listErr |-> le,
      rows |-> [i \in 1..Len(names) |-> ReportRow(names[i])],
      paneRows |-> PaneRowsFor(names, wdOf)] :
        de \in BOOLEAN, rp \in {<<>>, << <<"b">>, <<"a">> >>},
        le \in {"", "noserver", "other"},
        names \in Arrangements(DiscoverNames),
        wdOf \in [DiscoverNames -> DiscoverWorkdirs]}

NoResult == [groups |-> <<>>, err |-> FALSE, skeleton |-> <<>>, hit |-> FALSE]

InitDiscover ==
    /\ gIn \in DiscoverInputs
    /\ gOut = NoResult
    /\ gPc = "in"
    /\ m = IdleModel
    /\ running = FALSE
    /\ cmds = EmptyBag
    /\ msgs = EmptyBag
    /\ tickTimer = FALSE
    /\ tmux = NoTmux
    /\ repoGroupCache = <<>>
    /\ keys = 0
    /\ last = NoStep

\* One refresh: groupedSessions runs on the inputs.  gPc is "out" after a
\* call on new inputs and "repeated" after a call on the inputs of the
\* call before.
DiscoverCall ==
    /\ gPc \in {"in", "again"}
    /\ \E r \in {groupedSessionsWithCache(repoGroupCache, gIn.dirErr, gIn.repos,
                                          gIn.listErr, gIn.rows, gIn.paneRows)} :
          /\ gOut' = [groups |-> r.res.groups, err |-> r.res.err,
                      skeleton |-> r.skeleton, hit |-> r.hit]
          /\ repoGroupCache' = r.cache
    /\ gPc' = IF gPc = "again" THEN "repeated" ELSE "out"
    /\ UNCHANGED <<m, running, cmds, msgs, tickTimer, tmux, keys, last, gIn>>

\* The next refresh meets the same directory listing and session report.
DiscoverRepeat ==
    /\ gPc \in {"out", "repeated"}
    /\ gPc' = "again"
    /\ UNCHANGED <<m, running, cmds, msgs, tickTimer, tmux, repoGroupCache,
                   keys, last, gIn, gOut>>

\* The next refresh meets other inputs.
DiscoverChange ==
    /\ gPc \in {"out", "repeated"}
    /\ gIn' \in DiscoverInputs
    /\ gOut' = NoResult
    /\ gPc' = "in"
    /\ UNCHANGED <<m, running, cmds, msgs, tickTimer, tmux, repoGroupCache,
                   keys, last>>

NextDiscover == DiscoverCall \/ DiscoverRepeat \/ DiscoverChange

SpecDiscover == InitDiscover /\ [][NextDiscover]_vars

(***************************************************************************)
(* The program: run(), the event loop, the commands, the tmux server       *)
(***************************************************************************)
\* The repositories under GitRoot, as remoteListDirNames returns them.
RepoDirs == << <<"a">>, <<"b">> >>

\* The tmux server when the program starts: the program runs inside tmux
\* and sessions x and y exist, or it runs outside tmux and session x
\* exists alone.  The sessions are in repository a; no preview pane exists.
InitialTmux ==
    {[sessions |-> {[Name |-> <<"x">>, Workdir |-> <<"/", "g", "/", "a">>],
                    [Name |-> <<"y">>, Workdir |-> <<"/", "g", "/", "a">>]},
      panes |-> {}, nextPane |-> 1, inTmux |-> TRUE],
     [sessions |-> {[Name |-> <<"x">>, Workdir |-> <<"/", "g", "/", "a">>]},
      panes |-> {}, nextPane |-> 1, inTmux |-> FALSE]}

\* The tmux session whose pane runs the program, when it runs inside tmux
\* (TMUX is set): one of the sessions of the server, here x.
HostSession == <<"x">>

\* Command-line arguments: none, one that matches one session, one that
\* matches every session of a repository.
QueryArgs == {<<>>, << <<"x">> >>, << <<"g">> >>}

\* The workspace remembered from the last run (loadLastWorkspaceTarget).
PreferredWorkspaces == {<<"g", "i", "t">>}

AnchorPane == <<"%", "0">>

\* What the environment answers to detectSoftAttachTarget: inside tmux the
\* current pane is found; outside it the terminal is no tmux client, and
\* list-panes -a prints a pane while the server runs (some session exists)
\* and fails when it does not.
ServerRuns(tm) == tm.inTmux \/ tm.sessions # {}

DetectAnswers(tm) ==
    IF tm.inTmux
    THEN {[inTmux |-> TRUE, cur |-> AnchorPane, tty |-> <<>>, any |-> <<>>]}
    ELSE {[inTmux |-> FALSE, cur |-> <<>>, tty |-> <<>>,
           any |-> IF ServerRuns(tm) THEN AnchorPane ELSE <<>>]}

\* The order in which list-sessions prints the sessions: by name.
ReportOrder(tm) ==
    CHOOSE o \in Arrangements(SessionNamesOf(tm)) :
        /\ Len(o) = Cardinality(tm.sessions)
        /\ \A i \in 1..(Len(o) - 1) : StrLess(o[i], o[i + 1])

WorkdirOf(tm, name) == (CHOOSE x \in tm.sessions : x.Name = name).Workdir

RECURSIVE TmuxPaneRows(_, _)
TmuxPaneRows(tm, order) ==
    IF order = <<>> THEN <<>>
    ELSE <<[Name |-> order[1], Index |-> <<"0">>, Path |-> WorkdirOf(tm, order[1])]>>
         \o TmuxPaneRows(tm, Tail(order))

\* groupedSessions run against the tmux server.
LoadResult(tm, cache, dirErr, listErr, order) ==
    groupedSessionsWithCache(cache, dirErr, RepoDirs, listErr,
                             [i \in 1..Len(order) |-> ReportRow(order[i])],
                             TmuxPaneRows(tm, order))

RECURSIVE SeqToBag(_)
SeqToBag(q) == IF q = <<>> THEN EmptyBag ELSE SetToBag({q[1]}) (+) SeqToBag(Tail(q))

\* run() that opens the quick list for a single match as well.
runNeverAttaches(args, tm, pref, dirErr, listErr, order) ==
    LET m0 == [IdleModel EXCEPT !.preferredWorkspace = pref]
        l == LoadResult(tm, <<>>, dirErr, listErr, order)
        q == findQuickCandidates(args, l.res)
    IN  IF Len(args) = 0
        THEN [m |-> m0, loop |-> TRUE, attached |-> <<>>, cache |-> <<>>]
        ELSE IF ~q.err /\ Len(q.out) >= 1
        THEN [m |-> [m0 EXCEPT !.selectingQuick = TRUE, !.quickCandidates = q.out,
                               !.selectedQuick = 0, !.status = "matches"],
              loop |-> TRUE, attached |-> <<>>, cache |-> l.cache]
        ELSE [m |-> m0, loop |-> TRUE, attached |-> <<>>, cache |-> l.cache]

\* run(): the state the event loop starts in, or the immediate attach.
run(args, tm, pref, dirErr, listErr, order) ==
    LET m0 == [IdleModel EXCEPT !.preferredWorkspace = pref]
        l == LoadResult(tm, <<>>, dirErr, listErr, order)
        q == findQuickCandidates(args, l.res)
    IN  IF Len(args) = 0
        THEN [m |-> m0, loop |-> TRUE, attached |-> <<>>, cache |-> <<>>]
        ELSE IF ~q.err /\ Len(q.out) = 1
        THEN [m |-> m0, loop |-> FALSE, attached |-> q.out[1].Session.Name,
              cache |-> l.cache]
        ELSE IF ~q.err /\ Len(q.out) > 1
        THEN [m |-> [m0 EXCEPT !.selectingQuick = TRUE, !.quickCandidates = q.out,
                               !.selectedQuick = 0, !.status = "matches"],
              loop |-> TRUE, attached |-> <<>>, cache |-> l.cache]
        ELSE [m |-> m0, loop |-> TRUE, attached |-> <<>>, cache |-> l.cache]

\* model.Init: the commands the loop starts with.
InitCmds(mm) == IF mm.selectingQuick THEN <<>> ELSE <<loadCmd>>

Init ==
    /\ tmux \in InitialTmux
    /\ \E args \in QueryArgs, pref \in PreferredWorkspaces :
          \E r \in {run(args, tmux, pref, FALSE, "", ReportOrder(tmux))} :
              /\ m = r.m
              /\ running = r.loop
              /\ cmds = SeqToBag(IF r.loop THEN InitCmds(r.m) ELSE <<>>)
              /\ tickTimer = (r.loop /\ ~r.m.selectingQuick)
              /\ repoGroupCache = r.cache
              /\ last = IF r.loop THEN NoStep
                        ELSE <<[call |-> "attach", pane |-> r.attached]>>
    /\ msgs = EmptyBag
    /\ keys = 0
    /\ gIn = [skeleton |-> <<>>, listErr |-> "", rows |-> <<>>, paneRows |-> <<>>]
    /\ gOut = [groups |-> <<>>, err |-> FALSE]
    /\ gPc = "idle"

(***************************************************************************)
(* Start-up check: run() applied to drawn arguments and tmux servers       *)
(***************************************************************************)
RunNames == {<<"x">>, <<"y">>, <<"x", "a">>}

\* Working directories: repository a, repository b, outside the git root.
RunWorkdirs == {<<"/", "g", "/", "a">>, <<"/", "g", "/", "b">>, <<"/", "h">>}

\* Every tmux server with some of the sessions x, y, xa.
RunTmux ==
    {[sessions |-> {[Name |-> n, Workdir |-> wd[n]] : n \in ns},
      panes |-> {}, nextPane |-> 1, inTmux |-> FALSE] :
        ns \in SUBSET RunNames, wd \in [RunNames -> RunWorkdirs]}

\* os.Args[1:]: no query, x (in x and xa), g (in the git groups' text and
\* in working directories), q (nowhere), xa (a substring of the name xa,
\* a subsequence of the haystack of x in repository a).
RunArgs == {<<>>, << <<"x">> >>, << <<"g">> >>, << <<"q">> >>, << <<"x", "a">> >>}

InitRun ==
    /\ tmux \in RunTmux
    /\ \E args \in RunArgs, dirErr \in BOOLEAN, listErr \in ListErrs(tmux) :
          gIn = [tokens |-> args, dirErr |-> dirErr, listErr |-> listErr]
    /\ gOut = [groups |-> <<>>, err |-> FALSE]
    /\ gPc = "in"
    /\ m = IdleModel
    /\ running = FALSE
    /\ cmds = EmptyBag
    /\ msgs = EmptyBag
    /\ tickTimer = FALSE
    /\ repoGroupCache = <<>>
    /\ keys = 0
    /\ last = NoStep

\* run() up to the start of the event loop or the return of
\* attachSessionNow; gOut keeps what groupedSessions answered.
RunCall ==
    /\ gPc = "in"
    /\ \E r \in {run(gIn.tokens, tmux, <<>>, gIn.dirErr, gIn.listErr,
                      ReportOrder(tmux))} :
          /\ m' = r.m
          /\ running' = r.loop
          /\ cmds' = SeqToBag(IF r.loop THEN InitCmds(r.m) ELSE <<>>)
          /\ tickTimer' = (r.loop /\ ~r.m.selectingQuick)
          /\ repoGroupCache' = r.cache
          /\ last' = IF r.loop THEN NoStep
                     ELSE <<[call |-> "attach", pane |-> r.attached]>>
    /\ \E l \in {LoadResult(tmux, <<>>, gIn.dirErr, gIn.listErr,
                             ReportOrder(tmux))} :
          gOut' = [groups |-> l.res.groups, err |-> l.res.err]
    /\ gPc' = "out"
    /\ UNCHANGED <<msgs, tmux, keys, gIn>>

NextRun == RunCall

SpecRun == InitRun /\ [][NextRun]_vars

\* One turn of the event loop: Update handles msg, its commands are
\* started, the tmux calls it made take effect.  msgs1 is the message
\* queue without the handled message; cost is what the turn takes from
\* the budget of keys.
Handle(msg, e, msgs1, cost) ==
    \E R \in {Update(m, msg, e)} :
        /\ running
        /\ keys + cost <= MaxKeys
        /\ keys' = keys + cost
        /\ m' = R.m
        /\ cmds' = cmds (+) SeqToBag(R.cmds)
        /\ msgs' = msgs1
        /\ tmux' = ApplyCalls(tmux, R.calls)
        /\ running' = ~R.quit
        /\ tickTimer' = IF msg.type = "tick" THEN R.tick ELSE tickTimer
        /\ last' = R.calls
        /\ UNCHANGED <<repoGroupCache, gIn, gOut, gPc>>

\* What a key takes from the budget: nothing when it only moves the cursor
\* of the menu or of the quick list.
KeyCost(k) ==
    IF (m.selectingMenu \/ m.selectingQuick) /\ k \in {"up", "down"} THEN 0 ELSE 1

Key(k) ==
    \E e \in DetectAnswers(tmux) :
        Handle([type |-> "key", key |-> k], e, msgs, KeyCost(k))

\* The keys pressed in the model.  "q" stands for "esc" too, "tab" for the
\* other keys that change the repository, "1" for the other digits and "b"
\* for the other spawn keys.
KeyQuit == \E k \in {"ctrl+c", "q"} : Key(k)
KeyDestroy == Key("d")
KeyMenu == Key("0")
KeyRepo == Key("tab")
KeyVertical == \E k \in {"up", "down"} : Key(k)
KeyEnter == Key("enter")
KeyDigit == Key("1")
KeySpawn == Key("b")

\* Commands running and result messages not yet handled.
Inflight == BagCardinality(cmds) + BagCardinality(msgs)

\* The tea.Tick timer fires and Update handles the tickMsg.
Tick ==
    /\ tickTimer
    /\ Inflight < MaxInflight
    /\ \E e \in DetectAnswers(tmux) :
          Handle([type |-> "tick"], e, msgs, 0)

\* Update handles a result message of a command.
Deliver(type) ==
    \E msg \in BagToSet(msgs), e \in DetectAnswers(tmux) :
        /\ msg.type = type
        /\ Handle(msg, e, msgs (-) SetToBag({msg}), 0)

DeliverLoaded == Deliver("loaded")
DeliverAction == Deliver("action")
DeliverViewCreated == Deliver("viewCreated")
DeliverSoftAttach == Deliver("softAttach")

\* A command runs to completion: c leaves cmds, its message joins msgs.
Ran(c, msg, tm, cache) ==
    /\ running
    /\ cmds' = cmds (-) SetToBag({c})
    /\ msgs' = msgs (+) SetToBag({msg})
    /\ tmux' = tm
    /\ repoGroupCache' = cache
    /\ UNCHANGED <<m, running, tickTimer, keys, last, gIn, gOut, gPc>>

\* loadCmd
ExecLoad ==
    \E c \in BagToSet(cmds), listErr \in ListErrs(tmux) :
        /\ c.kind = "load"
        /\ \E l \in {LoadResult(tmux, repoGroupCache, FALSE, listErr,
                                ReportOrder(tmux))} :
               Ran(c, [type |-> "loaded", groups |-> l.res.groups,
                       err |-> l.res.err],
                   tmux, l.cache)

\* softAttachPreviewCmd.  The message carries, as history, the pane the
\* command was given, whether that pane was alive when the command ran,
\* the tmux calls the command made and whether an anchor had been resolved
\* for it.
ExecSoftAttach ==
    \E c \in BagToSet(cmds), ok \in BOOLEAN :
        /\ c.kind = "soft"
        /\ ok => /\ ServerRuns(tmux)
                 /\ \/ tmux.nextPane <= MaxPanes
                    \/ PaneAlive(tmux, TrimSpace(c.currentPane))
        /\ \E r \in {ensureSoftPreviewPane(tmux, c.currentPane, c.splitTarget,
                                           c.session, ok, ok)} :
               Ran(c, [type |-> "softAttach", pane |-> r.pane,
                       session |-> c.session, err |-> r.err,
                       currentPane |-> c.currentPane,
                       alive |-> PaneAlive(tmux, TrimSpace(c.currentPane)),
                       calls |-> r.calls, anchored |-> c.anchored],
                   r.tmux, repoGroupCache)

\* killSessionCmd: the session ends, and with it the panes attached to it.
ExecKillSession ==
    \E c \in BagToSet(cmds) :
        /\ c.kind = "kill"
        /\ IF c.name \in SessionNamesOf(tmux)
           THEN Ran(c, [type |-> "action", status |-> "Destroyed", err |-> FALSE],
                    [tmux EXCEPT !.sessions = {x \in @ : x.Name # c.name},
                                 !.panes = {p \in @ : p.session # c.name}],
                    repoGroupCache)
           ELSE Ran(c, [type |-> "action", status |-> "", err |-> TRUE],
                    tmux, repoGroupCache)

\* spawnAndAttachCmd
ExecSpawn ==
    \E c \in BagToSet(cmds), listErr \in ListErrs(tmux), newOk \in BOOLEAN :
        /\ c.kind = "spawn"
        /\ \E b \in {buildSessionName(c.repo, c.commandName, listErr,
                                      SessionNamesOf(tmux))} :
           LET ok == ~b.err /\ newOk
           IN  /\ ok => /\ Cardinality(tmux.sessions) < MaxSessions
                        /\ b.name \notin SessionNamesOf(tmux)
               /\ IF ok
                  THEN Ran(c, [type |-> "viewCreated", name |-> b.name,
                               count |-> 1, err |-> FALSE],
                           [tmux EXCEPT !.sessions =
                               @ \cup {[Name |-> b.name,
                                        Workdir |-> IF TrimSpace(c.path) # <<>>
                                                    THEN c.path ELSE <<"/">>]}],
                           repoGroupCache)
                  ELSE Ran(c, [type |-> "viewCreated", name |-> <<>>,
                               count |-> 0, err |-> TRUE],
                           tmux, repoGroupCache)

\* attachCmd: tea.ExecProcess runs tmux attach-session until the user
\* detaches or the attach fails.
ExecAttach ==
    \E c \in BagToSet(cmds), ok \in BOOLEAN :
        /\ c.kind = "attach"
        /\ ok => c.session \in SessionNamesOf(tmux)
        /\ Ran(c, [type |-> "action", status |-> IF ok THEN "Detached" ELSE "",
                   err |-> ~ok],
               tmux, repoGroupCache)

\* updateCmd
ExecUpdate ==
    \E c \in BagToSet(cmds), ok \in BOOLEAN :
        /\ c.kind = "update"
        /\ Ran(c, [type |-> "action", status |-> IF ok THEN "Updated" ELSE "",
                   err |-> ~ok],
               tmux, repoGroupCache)

\* A preview pane is closed from outside (the user closes it, or the
\* attach in it ends).
PaneClosed ==
    /\ running
    /\ \E p \in tmux.panes : tmux' = [tmux EXCEPT !.panes = @ \ {p}]
    /\ UNCHANGED <<m, running, cmds, msgs, tickTimer, repoGroupCache, keys,
                   last, gIn, gOut, gPc>>

Next ==
    \/ KeyQuit \/ KeyDestroy \/ KeyMenu \/ KeyRepo \/ KeyVertical \/ KeyEnter
    \/ KeyDigit \/ KeySpawn
    \/ Tick
    \/ DeliverLoaded \/ DeliverAction \/ DeliverViewCreated \/ DeliverSoftAttach
    \/ ExecLoad \/ ExecSoftAttach \/ ExecKillSession \/ ExecSpawn \/ ExecAttach
    \/ ExecUpdate
    \/ PaneClosed

Spec == Init /\ [][Next]_vars

(***************************************************************************)
(* Refresh check: the event loop with its refreshes numbered               *)
(*                                                                         *)
(* The loop of Spec restricted to the tick, the key "d" and the commands   *)
(* they start, with a tick allowed while commands are outstanding.  Every  *)
(* loadCmd started is numbered in order of issue: gIn is the number of     *)
(* refreshes issued so far, a load command and its loadedMsg carry the     *)
(* number of their refresh in seq, and gOut is the number of the refresh   *)
(* whose groups the model shows.  The numbers are history: Update never    *)
(* reads them.                                                             *)
(***************************************************************************)
MaxRefreshes == 2   \* refreshes issued in one run

\* The commands Update returned, the loadCmd among them numbered n.
Numbered(c, n) ==
    [i \in 1..Len(c) |->
        IF c[i] = loadCmd THEN [kind |-> "load", seq |-> n] ELSE c[i]]

StartsLoad(c) == \E i \in 1..Len(c) : c[i] = loadCmd

InitRefresh ==
    /\ tmux \in InitialTmux
    /\ \E pref \in PreferredWorkspaces :
          \E r \in {run(<<>>, tmux, pref, FALSE, "", ReportOrder(tmux))} :
              /\ m = r.m
              /\ running = r.loop
              /\ cmds = SeqToBag(Numbered(InitCmds(r.m), 1))
              /\ tickTimer = r.loop
              /\ repoGroupCache = r.cache
    /\ last = NoStep
    /\ msgs = EmptyBag
    /\ keys = 0
    /\ gIn = 1
    /\ gOut = 0
    /\ gPc = "idle"

\* One turn of the event loop, as Handle, with the history kept.
RefreshHandle(msg, e, msgs1, cost) ==
    \E R \in {Update(m, msg, e)} :
        /\ running
        /\ keys + cost <= MaxKeys
        /\ keys' = keys + cost
        /\ m' = R.m
        /\ cmds' = cmds (+) SeqToBag(Numbered(R.cmds, gIn + 1))
        /\ gIn' = IF StartsLoad(R.cmds) THEN gIn + 1 ELSE gIn
        /\ gOut' = IF msg.type = "loaded" /\ ~msg.err /\ R.m.groups = msg.groups
                   THEN msg.seq ELSE gOut
        /\ msgs' = msgs1
        /\ tmux' = ApplyCalls(tmux, R.calls)
        /\ running' = ~R.quit
        /\ tickTimer' = IF msg.type = "tick" THEN R.tick ELSE tickTimer
        /\ last' = R.calls
        /\ UNCHANGED <<repoGroupCache, gPc>>

\* The key "d", pressed once in a run.
RefreshKeyDestroy ==
    \E e \in DetectAnswers(tmux) :
        RefreshHandle([type |-> "key", key |-> "d"], e, msgs, MaxKeys)

\* The tick fires whatever is outstanding.
RefreshTick ==
    /\ tickTimer
    /\ gIn < MaxRefreshes
    /\ \E e \in DetectAnswers(tmux) :
          RefreshHandle([type |-> "tick"], e, msgs, 0)

RefreshDeliver(type) ==
    \E msg \in BagToSet(msgs), e \in DetectAnswers(tmux) :
        /\ msg.type = type
        /\ RefreshHandle(msg, e, msgs (-) SetToBag({msg}), 0)

RefreshDeliverLoaded == RefreshDeliver("loaded")
RefreshDeliverAction == RefreshDeliver("action")
RefreshDeliverSoftAttach == RefreshDeliver("softAttach")

\* loadCmd, its loadedMsg numbered as the command.
RefreshExecLoad ==
    \E c \in BagToSet(cmds), listErr \in ListErrs(tmux) :
        /\ c.kind = "load"
        /\ \E l \in {LoadResult(tmux, repoGroupCache, FALSE, listErr,
                                ReportOrder(tmux))} :
               Ran(c, [type |-> "loaded", groups |-> l.res.groups,
                       err |-> l.res.err, seq |-> c.seq],
                   tmux, l.cache)

NextRefresh ==
    \/ RefreshKeyDestroy
    \/ RefreshTick
    \/ RefreshDeliverLoaded \/ RefreshDeliverAction \/ RefreshDeliverSoftAttach
    \/ RefreshExecLoad \/ ExecSoftAttach \/ ExecKillSession

SpecRefresh == InitRefresh /\ [][NextRefresh]_vars

(***************************************************************************)
(* Preview lifecycle: C1 .. C8                                             *)
(***************************************************************************)
\* The PreviewHandle of model mm is Empty.
HandleEmpty(mm) == mm.previewPane = <<>> /\ mm.previewSession = <<>>

\* Preview commands running, and their results not yet handled.
SoftCmds == {c \in BagToSet(cmds) : c.kind = "soft"}
SoftResults == {x \in BagToSet(msgs) : x.type = "softAttach"}

\* This step is the Update turn that handles message x.
Handled(x) == x \in BagToSet(msgs) /\ msgs' = msgs (-) SetToBag({x})

\* This step starts a command of kind k.
Issued(k) ==
    \E c \in BagToSet(cmds') :
        c.kind = k /\ CopiesIn(c, cmds') > CopiesIn(c, cmds)

CallsNamed(calls, name) == {i \in 1..Len(calls) : calls[i].call = name}

\* C1: in every reachable state at most one preview pane created by the
\* manager exists and has not been killed, and once no preview command or
\* result is outstanding every existing pane is the one the PreviewHandle
\* records.
C1_SinglePreviewPane ==
    /\ Cardinality(tmux.panes) <= 1
    /\ (SoftCmds = {} /\ SoftResults = {}) =>
          \A p \in tmux.panes : m.previewPane = PaneId(p.id)

\* C2: handling a softAttachMsg whose session is not the session the
\* selection aims at when it is handled leaves previewPane and
\* previewSession unchanged.
C2_StaleResultIgnored ==
    [][\A x \in SoftResults :
          (/\ Handled(x)
           /\ previewTarget(m).ok
           /\ previewTarget(m).sel.Name # x.session)
          => /\ m'.previewPane = m.previewPane
             /\ m'.previewSession = m.previewSession]_vars

\* C3: a step that leaves the PreviewHandle Live(pane, S) and ends with S
\* as the target session (a selection change, a handled loadedMsg, any
\* other turn) starts no preview command, so no split-window and no
\* respawn-pane call follows from it.
C3_NoCommandWhenTargetMirrored ==
    [][(/\ m.previewPane # <<>>
        /\ m'.previewPane = m.previewPane
        /\ m'.previewSession = m.previewSession
        /\ previewTarget(m').ok
        /\ previewTarget(m').sel.Name = m'.previewSession)
       => ~Issued("soft")]_vars

\* The handle is Live(%1, x), the selection was moved from session x to
\* the row of its repository (whose target is x again), and no preview
\* command was started: the only pane ever created is %1.
C3_Witness_SameTarget ==
    /\ m.previewPane = PaneId(1)
    /\ m.previewSession = <<"x">>
    /\ m.selectedSession = -1
    /\ previewTarget(m).ok
    /\ previewTarget(m).sel.Name = <<"x">>
    /\ keys = 1
    /\ SoftCmds = {}
    /\ SoftResults = {}
    /\ tmux.nextPane = 2
    /\ m.status = "Loaded"

\* C4: a preview command started while the PreviewHandle was Empty makes
\* exactly one split-window call and no respawn-pane call, and when it
\* succeeds, handling its result leaves the handle Live(newPane, session)
\* with the pane identifier split-window returned.
C4_CreateWhenEmpty ==
    [][\A x \in SoftResults :
          (Handled(x) /\ x.currentPane = <<>>)
          => /\ Len(x.calls) = 1
             /\ x.calls[1].call = "split-window"
             /\ ~x.err => /\ m'.previewPane = x.pane
                          /\ m'.previewSession = x.session]_vars

\* C5: a preview command started for session T while the PreviewHandle was
\* Live(P, S), run while P is still alive, makes exactly one respawn-pane
\* call, on P, and no split-window call, and when it succeeds, handling
\* its result leaves the handle Live(P, T).
C5_RespawnWhenLive ==
    [][\A x \in SoftResults :
          (Handled(x) /\ x.currentPane # <<>> /\ x.alive)
          => /\ CallsNamed(x.calls, "split-window") = {}
             /\ \E i \in 1..Len(x.calls) :
                   /\ CallsNamed(x.calls, "respawn-pane") = {i}
                   /\ x.calls[i].pane = x.currentPane
             /\ ~x.err => /\ m'.previewPane = x.currentPane
                          /\ m'.previewSession = x.session]_vars

\* This step is a teardown: Update quits, or starts a full attach.
Teardown == (running /\ ~running') \/ Issued("attach")

\* C6: every teardown step (quit from the list, the menu or the quick
\* list; full attach by Enter, by the menu, by quick attach or to a
\* spawned session) calls kill-pane on the recorded pane when one is
\* recorded, leaves previewPane and previewSession empty, and reports no
\* failure of the kill: a quit keeps the status, an attach sets its own.
C6_TeardownKillsRecordedPane ==
    [][Teardown =>
          /\ HandleEmpty(m')
          /\ last' = IF TrimSpace(m.previewPane) = <<>> THEN <<>>
                     ELSE <<[call |-> "kill-pane", pane |-> TrimSpace(m.previewPane)]>>
          /\ ~PaneAlive(tmux', TrimSpace(m.previewPane))
          /\ IF Issued("attach")
             THEN m'.status \in {"Attaching", "Opened split view"}
             ELSE m'.status = m.status]_vars

\* A full attach was just started from the list while pane %1 was
\* recorded: kill-pane %1 was called, the pane is gone, the handle is Empty.
C6_Witness_AttachKilledPane ==
    /\ last = <<[call |-> "kill-pane", pane |-> PaneId(1)]>>
    /\ HandleEmpty(m)
    /\ m.status = "Attaching"
    /\ \E c \in BagToSet(cmds) : c.kind = "attach"
    /\ ~PaneAlive(tmux, PaneId(1))
    /\ tmux.nextPane = 2

\* C7 (the case it names): when the respawn-pane call of a preview command
\* fails and the result is handled in the session list, the error is put
\* in the status, the program keeps running and the PreviewHandle is Empty.
C7_FailedRespawnLeavesEmpty ==
    [][\A x \in SoftResults :
          (/\ Handled(x)
           /\ x.err
           /\ CallsNamed(x.calls, "respawn-pane") # {}
           /\ ~m.selectingMenu
           /\ ~m.selectingQuick)
          => /\ running'
             /\ m'.status = "Soft attach failed"
             /\ HandleEmpty(m')]_vars

\* C8: a preview command started when detectSoftAttachTarget resolved no
\* anchor makes no split-window call.
C8_NoCreateWithoutAnchor ==
    \A x \in SoftResults :
        ~x.anchored => CallsNamed(x.calls, "split-window") = {}

(***************************************************************************)
(* Periodic refresh: C9                                                    *)
(***************************************************************************)
\* C9: while the program has not quit and shows the session list or the
\* menu, a tick is pending.
C9_TickAlwaysPending == (running /\ ~m.selectingQuick) => tickTimer

(***************************************************************************)
(* C10                                                                     *)
(***************************************************************************)
\* root is a path-separator-aligned prefix of the (cleaned) directory wd.
UnderRoot(wd, root) ==
    LET p == Clean(TrimSpace(wd))
    IN  \/ p = root
        \/ /\ Len(p) > Len(root)
           /\ SubSeq(p, 1, Len(root)) = root
           /\ p[Len(root) + 1] = "/"

\* The groups (indices) of gOut that hold a session named name.
GroupsHolding(name) ==
    {i \in 1..Len(gOut.groups) :
        \E k \in 1..Len(gOut.groups[i].Sessions) :
            gOut.groups[i].Sessions[k].Name = name}

\* The working directory the report gives session name.
ReportedWorkdir(name) == TrimSpace(pathBySession(gIn.paneRows, name))

\* C10: a reported session is never placed in a non-root group whose
\* rootPath is not a separator-aligned prefix of its working directory
\* (rootPath equals the directory or is followed by a separator in it);
\* and when at least one non-root group's rootPath is such a prefix, the
\* session is placed in exactly one of those groups, and none of them has
\* a longer rootPath than the one it is placed in.
C10_LongestAlignedPrefix ==
    (gPc = "out" /\ ~gOut.err /\ gIn.listErr = "") =>
        \A r \in 1..Len(gIn.rows) :
            LET name == gIn.rows[r].Name
                wd == ReportedWorkdir(name)
                under == {i \in 2..Len(gIn.skeleton) :
                              UnderRoot(wd, gIn.skeleton[i].Path)}
            IN
                /\ \A i \in GroupsHolding(name) : i = 1 \/ i \in under
                /\ under # {} =>
                    \E g \in under :
                        /\ GroupsHolding(name) = {g}
                        /\ \A j \in under :
                              Len(gIn.skeleton[j].Path) <= Len(gIn.skeleton[g].Path)

\* A session in /a/b/a with groups rooted at /a and /a/b lands in /a/b.
C10_Witness_Nested ==
    /\ gPc = "out"
    /\ Len(gIn.skeleton) = 3
    /\ gIn.skeleton[2].Path = <<"/", "a">>
    /\ gIn.skeleton[3].Path = <<"/", "a", "/", "b">>
    /\ ReportedWorkdir(<<"x">>) = <<"/", "a", "/", "b", "/", "a">>
    /\ GroupsHolding(<<"x">>) = {3}

(***************************************************************************)
(* C11, C12                                                                *)
(***************************************************************************)
\* C11: a reported session whose working directory is under no non-root
\* group's rootPath (an empty or unknown directory included) is placed in
\* the root group and nowhere else, and the root group holds no session
\* whose directory is under some non-root group's rootPath.
C11_UnmatchedGoesToRoot ==
    (gPc = "out" /\ ~gOut.err /\ gIn.listErr = "") =>
        \A r \in 1..Len(gIn.rows) :
            LET name == gIn.rows[r].Name
                wd == ReportedWorkdir(name)
                under == {i \in 2..Len(gIn.skeleton) :
                              UnderRoot(wd, gIn.skeleton[i].Path)}
            IN  /\ under = {} => GroupsHolding(name) = {1}
                /\ 1 \in GroupsHolding(name) => under = {}

\* Sessions x and y are reported with groups rooted at /a and /a/b: x has
\* no known directory and y is in /b/a; both are in the root group.
C11_Witness_RootFallback ==
    /\ gPc = "out"
    /\ gIn.skeleton[2].Path = <<"/", "a">>
    /\ gIn.skeleton[3].Path = <<"/", "a", "/", "b">>
    /\ ReportedWorkdir(<<"x">>) = <<>>
    /\ ReportedWorkdir(<<"y">>) = <<"/", "b", "/", "a">>
    /\ GroupsHolding(<<"x">>) = {1}
    /\ GroupsHolding(<<"y">>) = {1}
    /\ Len(gOut.groups[1].Sessions) = 2

\* C12: in every result of groupedSessions each group's sessions are in
\* ascending byte order of their names, whatever order list-sessions
\* reported them in.
C12_SessionsSortedByName ==
    (gPc = "out" /\ ~gOut.err) =>
        \A i \in 1..Len(gOut.groups) :
            \A k \in 1..(Len(gOut.groups[i].Sessions) - 1) :
                StrLess(gOut.groups[i].Sessions[k].Name,
                        gOut.groups[i].Sessions[k + 1].Name)

\* The report lists z, y, x, all of unknown directory; the root group
\* holds x, y, z in that order.
C12_Witness_ReversedReport ==
    /\ gPc = "out"
    /\ Len(gIn.rows) = 3
    /\ gIn.rows[1].Name = <<"z">>
    /\ gIn.rows[2].Name = <<"y">>
    /\ gIn.rows[3].Name = <<"x">>
    /\ Len(gOut.groups[1].Sessions) = 3
    /\ gOut.groups[1].Sessions[1].Name = <<"x">>
    /\ gOut.groups[1].Sessions[2].Name = <<"y">>
    /\ gOut.groups[1].Sessions[3].Name = <<"z">>

(***************************************************************************)
(* Discovery and its cache: C13 .. C16                                     *)
(***************************************************************************)
\* The places (group, position) of groups that hold a session named name.
Places(groups, name) ==
    UNION {{<<i, k>> : k \in {j \in 1..Len(groups[i].Sessions) :
                                  groups[i].Sessions[j].Name = name}} :
           i \in 1..Len(groups)}

\* The names of the sessions the inputs report to this call.
ReportedNames ==
    IF gIn.listErr = "" THEN {gIn.rows[r].Name : r \in 1..Len(gIn.rows)} ELSE {}

\* gOut is the result of a finished call.
Returned == gPc \in {"out", "repeated"}

\* C13: a call of groupedSessions on the directory listing and session
\* report of the call before it returns what that call returned: the same
\* groups in the same order with the same sessions in the same order, or
\* the same failure; and each reported session is in the result once.
C13_RepeatedCallSameResult ==
    [][(gPc = "again" /\ gPc' = "repeated") =>
          /\ gOut'.groups = gOut.groups
          /\ gOut'.err = gOut.err
          /\ ~gOut'.err =>
                \A n \in ReportedNames :
                    Cardinality(Places(gOut'.groups, n)) = 1]_vars

\* A repeated call, served from the cache, returned x in group git/a and
\* y in group git/b.
C13_Witness_Repeated ==
    /\ gPc = "repeated"
    /\ gOut.hit
    /\ ~gOut.err
    /\ Len(gOut.groups) = 3
    /\ Places(gOut.groups, <<"x">>) = {<<2, 1>>}
    /\ Places(gOut.groups, <<"y">>) = {<<3, 1>>}

\* C14: the cached skeleton never holds a session, the skeleton that
\* discoverRepoGroupsCached hands out has every session list empty, and
\* the groups a call returns hold exactly the sessions of that call's own
\* report, whatever the calls before it reported.
C14_NoStaleSessions ==
    /\ \A i \in 1..Len(repoGroupCache) : repoGroupCache[i].Sessions = <<>>
    /\ Returned =>
          /\ \A i \in 1..Len(gOut.skeleton) : gOut.skeleton[i].Sessions = <<>>
          /\ ~gOut.err =>
                \A i \in 1..Len(gOut.groups) :
                    \A k \in 1..Len(gOut.groups[i].Sessions) :
                        gOut.groups[i].Sessions[k].Name \in ReportedNames

\* A call served from the cache, whose report has y alone, returned y in
\* group git/a and no other session.
C14_Witness_CacheHit ==
    /\ gPc = "out"
    /\ gOut.hit
    /\ ~gOut.err
    /\ ReportedNames = {<<"y">>}
    /\ Len(gOut.groups) = 3
    /\ gOut.groups[1].Sessions = <<>>
    /\ Len(gOut.groups[2].Sessions) = 1
    /\ gOut.groups[2].Sessions[1].Name = <<"y">>
    /\ gOut.groups[3].Sessions = <<>>

\* C15: when list-sessions fails with "no server running" or "failed to
\* connect", or prints nothing, groupedSessions returns no error and the
\* skeleton, every group of it with no session.
C15_NoServerIsEmptyResult ==
    (Returned /\ (gIn.listErr = "noserver"
                  \/ (gIn.listErr = "" /\ gIn.rows = <<>>))) =>
        /\ ~gOut.err
        /\ gOut.groups = gOut.skeleton
        /\ Len(gOut.groups) >= 1
        /\ \A i \in 1..Len(gOut.groups) : gOut.groups[i].Sessions = <<>>

\* list-sessions failed with "no server running"; the three groups of the
\* skeleton came back empty, with no error.
C15_Witness_NoServer ==
    /\ gPc = "out"
    /\ gIn.listErr = "noserver"
    /\ ~gOut.err
    /\ Len(gOut.groups) = 3
    /\ \A i \in 1..3 : gOut.groups[i].Sessions = <<>>

\* C16: discoverRepoGroups returns at least one group and the root group
\* (name root, path /) first, also when the directory listing fails or is
\* empty; the skeleton handed to groupedSessions is such a list, and a
\* failed listing makes no call fail.
C16_RootGroupAlwaysFirst ==
    /\ Len(discoverRepoGroups(gIn.dirErr, gIn.repos)) >= 1
    /\ discoverRepoGroups(gIn.dirErr, gIn.repos)[1] = RootGroup
    /\ Returned =>
          /\ Len(gOut.skeleton) >= 1
          /\ gOut.skeleton[1].Name = <<"r", "o", "o", "t">>
          /\ gOut.skeleton[1].Path = <<"/">>
          /\ gIn.listErr \in {"", "noserver"} => ~gOut.err

\* The first call met a failed directory listing: the skeleton is the root
\* group alone and both reported sessions are in it.
C16_Witness_ListingFailed ==
    /\ gPc = "out"
    /\ gIn.dirErr
    /\ ~gOut.hit
    /\ ~gOut.err
    /\ gOut.skeleton = <<RootGroup>>
    /\ Len(gOut.groups) = 1
    /\ Len(gOut.groups[1].Sessions) = 2

(***************************************************************************)
(* Match/score engine: C17 .. C20                                          *)
(***************************************************************************)
\* p occurs in h as a contiguous run.
IsSubstring(h, p) ==
    \E i \in 0..(Len(h) - Len(p)) : \A j \in 1..Len(p) : h[i + j] = p[j]

\* The characters of p occur in h in order.
IsSubsequence(h, p) ==
    \E f \in [1..Len(p) -> 1..Len(h)] :
        /\ \A j \in 1..Len(p) : h[f[j]] = p[j]
        /\ \A j, k \in 1..Len(p) : j < k => f[j] < f[k]

\* Token p passes one of the two tests against text h.
TokenMatches(h, p) == IsSubstring(h, p) \/ IsSubsequence(h, p)

\* The whitespace-delimited tokens of the normalized query, and the
\* normalized haystack of the candidate.
QueryTokens == Fields(normalizeForMatch(JoinSep(gIn.tokens, " ")))

Haystack ==
    normalizeForMatch(JoinSep(<<gIn.s.Name, gIn.g.Name, gIn.g.Workspace,
                                gIn.g.Repo, gIn.s.Workdir>>, " "))

TokenPoints(h, p) == IF IsSubstring(h, p) THEN 10 + Len(p) ELSE 4 + Len(p)

RECURSIVE SumPoints(_, _)
SumPoints(h, ps) ==
    IF ps = <<>> THEN 0 ELSE TokenPoints(h, ps[1]) + SumPoints(h, Tail(ps))

\* C18: the score of a matched candidate is the sum over the tokens of
\* 10 + length for a substring and 4 + length for a subsequence only,
\* plus 3, once, when the normalized session name is a substring of the
\* haystack.
C18_ScoreIsSumOfTokenPoints ==
    (gPc = "out" /\ gOut.ok) =>
        gOut.score = SumPoints(Haystack, QueryTokens)
                     + (IF IsSubstring(Haystack, normalizeForMatch(gIn.s.Name))
                        THEN 3 ELSE 0)

\* The query op lz on opasdf-lazygit-1: op is a substring (12), lz only a
\* subsequence (6), the name bonus is 3: the score is 21.
C18_Witness_SubstringAndSubsequence ==
    /\ gPc = "out"
    /\ gIn.tokens = <<<<"o", "p">>, <<"l", "z">>>>
    /\ gIn.s.Name = OpasdfLazygit
    /\ IsSubstring(Haystack, <<"o", "p">>)
    /\ ~IsSubstring(Haystack, <<"l", "z">>)
    /\ IsSubsequence(Haystack, <<"l", "z">>)
    /\ gOut = [score |-> 21, ok |-> TRUE]

\* C19: for a query of two or more tokens whose first token matches the
\* group's repo, a candidate matches only if every remaining token matches
\* the session's own name (so op la matches opasdf-lazygit-1 of repo
\* opasdf and does not match opasdf-shell-1).
C19_RestMatchesSessionName ==
    (/\ gPc = "out"
     /\ Len(QueryTokens) >= 2
     /\ TokenMatches(normalizeForMatch(gIn.g.Repo), QueryTokens[1])
     /\ gOut.ok)
    => \A i \in 2..Len(QueryTokens) :
           TokenMatches(normalizeForMatch(gIn.s.Name), QueryTokens[i])

\* C20: for a query of two or more tokens, a candidate does not match
\* when the first token does not match the group's repo, whatever other
\* text of the candidate the token matches.
C20_FirstTokenMustMatchRepo ==
    (/\ gPc = "out"
     /\ Len(QueryTokens) >= 2
     /\ ~TokenMatches(normalizeForMatch(gIn.g.Repo), QueryTokens[1]))
    => ~gOut.ok

\* The normalized haystack of candidate c.
HaystackOf(c) ==
    normalizeForMatch(JoinSep(<<c.s.Name, c.g.Name, c.g.Workspace, c.g.Repo,
                                c.s.Workdir>>, " "))

\* Some token of the query matches the session name of candidate c itself.
HitsName(c) ==
    \E i \in 1..Len(QueryTokens) :
        TokenMatches(normalizeForMatch(c.s.Name), QueryTokens[i])

\* C21: of two matched candidates with equal per-token contributions, the
\* one whose query tokens hit the session name scores strictly higher than
\* the one whose tokens hit only the repo and workspace metadata.
C21_NameHitScoresHigher ==
    gPc = "out" =>
        \A c \in ScoreCandidates :
            (/\ gOut.ok
             /\ scoreSessionMatch(gIn.tokens, c.g, c.s).ok
             /\ SumPoints(Haystack, QueryTokens)
                    = SumPoints(HaystackOf(c), QueryTokens)
             /\ HitsName([g |-> gIn.g, s |-> gIn.s])
             /\ ~HitsName(c))
            => gOut.score > scoreSessionMatch(gIn.tokens, c.g, c.s).score

(***************************************************************************)
(* Quick attach: C22, C23                                                  *)
(***************************************************************************)
\* Candidate a stands strictly before candidate b: higher score, then
\* lower session name, then lower workspace, then lower repo.
RanksBefore(a, b) ==
    \/ a.Score > b.Score
    \/ a.Score = b.Score /\ StrLess(a.Session.Name, b.Session.Name)
    \/ a.Score = b.Score /\ a.Session.Name = b.Session.Name
       /\ StrLess(a.Workspace, b.Workspace)
    \/ a.Score = b.Score /\ a.Session.Name = b.Session.Name
       /\ a.Workspace = b.Workspace /\ StrLess(a.Repo, b.Repo)

\* C22: the candidate list is strictly ordered by score descending, then
\* session name, workspace and repo ascending, so that its order is fixed
\* by the groups and sessions alone.
C22_CandidatesTotallyOrdered ==
    gPc = "out" =>
        \A i, j \in 1..Len(gOut.out) :
            i < j => RanksBefore(gOut.out[i], gOut.out[j])

\* Three candidates: one with a higher score, then two of equal score in
\* name order, from a report that listed the names in the opposite order.
C22_Witness_ScoreThenName ==
    /\ gPc = "out"
    /\ Len(gOut.out) = 3
    /\ gOut.out[1].Score > gOut.out[2].Score
    /\ gOut.out[2].Score = gOut.out[3].Score
    /\ StrLess(gOut.out[2].Session.Name, gOut.out[3].Session.Name)
    /\ gIn.rows[1].Name = gOut.out[3].Session.Name

\* The (group, session) pairs of the discovered groups that the query
\* matches: the query has a token and every token passes.
MatchedPairs ==
    IF gOut.err \/ QueryTokens = <<>> THEN {}
    ELSE {c \in UNION {{[g |-> gOut.groups[i], s |-> gOut.groups[i].Sessions[k]] :
                           k \in 1..Len(gOut.groups[i].Sessions)} :
                       i \in 1..Len(gOut.groups)} :
             \A t \in 1..Len(QueryTokens) :
                 TokenMatches(HaystackOf(c), QueryTokens[t])}

\* C23: with query tokens, exactly one match is attached at once and the
\* event loop is not entered; no match or a failed discovery starts the
\* normal list; two or more matches start the loop in quick-select mode
\* with exactly the matched candidates, in score order, the first selected.
C23_QueryDispatch ==
    /\ gPc = "in" => ~running
    /\ (gPc = "out" /\ gIn.tokens # <<>>) =>
          /\ Cardinality(MatchedPairs) = 1 =>
                /\ ~running
                /\ cmds = EmptyBag
                /\ \E c \in MatchedPairs :
                      last = <<[call |-> "attach", pane |-> c.s.Name]>>
          /\ Cardinality(MatchedPairs) = 0 =>
                /\ running
                /\ ~m.selectingQuick
                /\ cmds = SetToBag({loadCmd})
                /\ last = NoStep
          /\ Cardinality(MatchedPairs) >= 2 =>
                /\ running
                /\ m.selectingQuick
                /\ m.selectedQuick = 0
                /\ Len(m.quickCandidates) = Cardinality(MatchedPairs)
                /\ {[g |-> x.Repo, s |-> x.Session] : x \in
                        {m.quickCandidates[i] : i \in 1..Len(m.quickCandidates)}}
                   = {[g |-> c.g.Repo, s |-> c.s] : c \in MatchedPairs}
                /\ \A i \in 1..(Len(m.quickCandidates) - 1) :
                      m.quickCandidates[i].Score >= m.quickCandidates[i + 1].Score

\* The query x with sessions x and y running: x alone matches, it is
\* attached and the loop has not started.
C23_Witness_SingleMatchAttached ==
    /\ gPc = "out"
    /\ gIn.tokens = << <<"x">> >>
    /\ SessionNamesOf(tmux) = {<<"x">>, <<"y">>}
    /\ Cardinality(MatchedPairs) = 1
    /\ ~running
    /\ last = <<[call |-> "attach", pane |-> <<"x">>]>>

(***************************************************************************)
(* Failures: C24                                                           *)
(***************************************************************************)
\* The failed results waiting to be handled.
ErrorResults ==
    {x \in BagToSet(msgs) :
        x.type \in {"loaded", "action", "viewCreated", "softAttach"} /\ x.err}

\* The status message that reports a failed result.
FailureStatus(x) ==
    CASE x.type = "loaded" -> "Refresh failed"
      [] x.type = "softAttach" -> "Soft attach failed"
      [] OTHER -> "Action failed"

\* C24: handling a failed result (refresh, action, soft attach) never
\* quits: the loop keeps running and the status reports the failure.
C24_ErrorsKeepLoopRunning ==
    [][\A x \in ErrorResults :
          Handled(x) => /\ running'
                        /\ m'.status = FailureStatus(x)]_vars

(***************************************************************************)
(* Attach commands: C25, C26                                               *)
(***************************************************************************)
\* The words of a command line.
Words(line) == Fields(line)

\* C25: the command running in every preview pane clears TMUX, attaches
\* to the mirrored session and carries the read-only flag -r.
C25_PreviewAttachReadOnly ==
    \A p \in tmux.panes :
        LET w == Words(PaneCommand(p))
        IN  /\ w[1] = <<"T", "M", "U", "X", "=">>
            /\ \E i \in 1..Len(w) : w[i] = <<"a", "t", "t", "a", "c", "h", "-", "s", "e", "s", "s", "i", "o", "n">>
            /\ \E i \in 1..Len(w) : w[i] = <<"-", "r">>
            /\ w[Len(w)] = p.session

\* C26: every full attach to session S names S as its target and uses
\* switch-client inside tmux, attach-session outside tmux.
C26_AttachSwitchesInsideTmux ==
    \A c \in BagToSet(cmds) :
        c.kind = "attach" =>
            LET a == tmuxAttachCmd(c.session, tmux.inTmux)
            IN  /\ a[4] = c.session
                /\ a[2] = IF tmux.inTmux THEN <<"s", "w", "i", "t", "c", "h", "-", "c", "l", "i", "e", "n", "t">>
                          ELSE <<"a", "t", "t", "a", "c", "h", "-", "s", "e", "s", "s", "i", "o", "n">>

(***************************************************************************)
(* The program's own session: C27                                          *)
(***************************************************************************)
\* The names of the sessions shown in the groups of model mm.
ShownNames(mm) ==
    UNION {{mm.groups[i].Sessions[k].Name : k \in 1..Len(mm.groups[i].Sessions)} :
              i \in 1..Len(mm.groups)}

\* C27: inside tmux, the session the program runs in is in no group of
\* the picker and no kill-session command names it.
C27_OwnSessionHidden ==
    tmux.inTmux =>
        /\ HostSession \notin ShownNames(m)
        /\ \A c \in BagToSet(cmds) : c.kind = "kill" => c.name # HostSession

(***************************************************************************)
(* Selection: C28, C29                                                     *)
(***************************************************************************)
\* The repo row of the active workspace is selected in model mm.
RepoRowSelected(mm) ==
    /\ mm.selectedSession = -1
    /\ mm.selectedWorkspace >= 0
    /\ mm.selectedWorkspace < Len(mm.groups)
    /\ mm.groups[mm.selectedWorkspace + 1].Name = mm.activeWorkspace

\* The refreshes waiting to be handled that succeeded.
Refreshes == {x \in BagToSet(msgs) : x.type = "loaded" /\ ~x.err}

\* C28: a refresh handled while the repo row of the active workspace is
\* selected, and that still lists that workspace, leaves the same
\* workspace selected with selectedSession = -1, whether the workspace has
\* sessions or not.
C28_RepoRowKept ==
    [][\A x \in Refreshes :
          (/\ Handled(x)
           /\ RepoRowSelected(m)
           /\ \E i \in 1..Len(x.groups) : x.groups[i].Name = m.activeWorkspace)
          => /\ m'.selectedSession = -1
             /\ m'.groups[m'.selectedWorkspace + 1].Name = m.activeWorkspace]_vars

\* The groups of model mm that have sessions, as Go indices.
GroupsWithSessions(mm) ==
    {i \in 0..(Len(mm.groups) - 1) : mm.groups[i + 1].Sessions # <<>>}

\* The group whose first session an attach from a repo row acts on: the
\* selected group when it has sessions, else the first group that has.
AttachGroup(mm) ==
    IF mm.selectedWorkspace \in GroupsWithSessions(mm) THEN mm.selectedWorkspace
    ELSE CHOOSE i \in GroupsWithSessions(mm) :
             \A j \in GroupsWithSessions(mm) : i <= j

\* C29: Enter in the session list with a repo row selected, while some
\* group has a session, attaches to the first session of the selected
\* group, or of the first group that has sessions when the selected group
\* has none, and moves the selection to that session.
C29_RepoRowAttachesFirstSession ==
    [][(/\ KeyEnter
        /\ ~m.selectingMenu
        /\ ~m.selectingQuick
        /\ m.selectedSession = -1
        /\ GroupsWithSessions(m) # {})
       => /\ \E c \in BagToSet(cmds') :
                /\ c.kind = "attach"
                /\ c.session = m.groups[AttachGroup(m) + 1].Sessions[1].Name
                /\ CopiesIn(c, cmds') > CopiesIn(c, cmds)
          /\ m'.selectedSession = 0
          /\ m'.selectedWorkspace = AttachGroup(m)]_vars

(***************************************************************************)
(* New session names: C30                                                  *)
(***************************************************************************)
DigitOf ==
    [c \in {"0", "1", "2", "3", "4", "5", "6", "7", "8", "9"} |->
        CASE c = "0" -> 0 [] c = "1" -> 1 [] c = "2" -> 2 [] c = "3" -> 3
          [] c = "4" -> 4 [] c = "5" -> 5 [] c = "6" -> 6 [] c = "7" -> 7
          [] c = "8" -> 8 [] c = "9" -> 9]

\* The value of a string of decimal digits, 0 for the empty string.
RECURSIVE DecimalValue(_)
DecimalValue(d) ==
    IF d = <<>> THEN 0
    ELSE 10 * DecimalValue(SubSeq(d, 1, Len(d) - 1)) + DigitOf[d[Len(d)]]

\* The digits a string starts with.
LeadingDigits(t) ==
    SubSeq(t, 1, Max({k \in 0..Len(t) : \A j \in 1..k : t[j] \in DOMAIN DigitOf}))

\* The repo-command- prefix of the name being built.
NamePrefix ==
    (IF sanitizeSessionToken(gIn.repo) = <<>> THEN <<"r", "e", "p", "o">>
     ELSE sanitizeSessionToken(gIn.repo))
    \o <<"-">> \o
    (IF sanitizeSessionToken(gIn.commandName) = <<>> THEN <<"s", "h", "e", "l", "l">>
     ELSE sanitizeSessionToken(gIn.commandName))
    \o <<"-">>

\* The numeric suffixes of the listed names that start with NamePrefix.
NumericSuffixes ==
    {DecimalValue(LeadingDigits(SubSeq(n, Len(NamePrefix) + 1, Len(n)))) :
        n \in {x \in gIn.names :
                  /\ Len(x) >= Len(NamePrefix)
                  /\ SubSeq(x, 1, Len(NamePrefix)) = NamePrefix}}

\* C30: a generated name is the repo-command- prefix followed by the
\* decimal number one above the largest numeric suffix of the listed names
\* with that prefix (1 when there is none or no server runs), and it is
\* none of the listed names.
C30_NewNameIsFresh ==
    (gPc = "out" /\ ~gOut.err) =>
        LET suffix == SubSeq(gOut.name, Len(NamePrefix) + 1, Len(gOut.name))
        IN  /\ Len(gOut.name) > Len(NamePrefix)
            /\ SubSeq(gOut.name, 1, Len(NamePrefix)) = NamePrefix
            /\ \A j \in 1..Len(suffix) : suffix[j] \in DOMAIN DigitOf
            /\ suffix[1] # "0"
            /\ DecimalValue(suffix) = Max(NumericSuffixes \cup {0}) + 1
            /\ gOut.name \notin gIn.names

\* With a-shell-1, a-shell-2 and a-shell-10 listed, the name built for
\* repo a and command shell is a-shell-11.
C30_Witness_NextAfterLargest ==
    /\ gPc = "out"
    /\ gIn.repo = <<"a">>
    /\ {<<"a", "-", "s", "h", "e", "l", "l", "-", "1">>, <<"a", "-", "s", "h", "e", "l", "l", "-", "2">>, <<"a", "-", "s", "h", "e", "l", "l", "-", "1", "0">>} \subseteq gIn.names
    /\ gOut = [name |-> <<"a", "-", "s", "h", "e", "l", "l", "-", "1", "1">>, err |-> FALSE]

(***************************************************************************)
(* Up and Down: C31                                                        *)
(***************************************************************************)
\* The number of rows of the first n groups: one repo row and one row per
\* session each.
RECURSIVE RowsOfFirst(_, _)
RowsOfFirst(groups, n) ==
    IF n = 0 THEN 0
    ELSE RowsOfFirst(groups, n - 1) + 1 + Len(groups[n].Sessions)

\* The place of the selected row in the list of all rows, from 0.
RowIndex(mm) ==
    RowsOfFirst(mm.groups, mm.selectedWorkspace) + mm.selectedSession + 1

RowCount(mm) == RowsOfFirst(mm.groups, Len(mm.groups))

\* C31: Down moves the selection to the next row of the list of every
\* repo row followed by its sessions, and from the last row to the first;
\* Up moves it to the row before, and from the first row to the last.  Up
\* therefore undoes Down, and as many Downs as there are rows visit every
\* row once and come back.
C31_UpDownCycleThroughRows ==
    [][/\ gPc' = "down" =>
             /\ m'.groups = m.groups
             /\ RowIndex(m') = (RowIndex(m) + 1) % RowCount(m)
       /\ gPc' = "up" =>
             /\ m'.groups = m.groups
             /\ RowIndex(m') = (RowIndex(m) + RowCount(m) - 1) % RowCount(m)]_vars

\* Down has wrapped from the last row, a session row of the last group, to
\* the repo row of the first group.
C31_Witness_DownWrapped ==
    /\ gPc = "down"
    /\ m.selectedWorkspace = 0
    /\ m.selectedSession = -1
    /\ m.groups[Len(m.groups)].Sessions # <<>>

(***************************************************************************)
(* A pane closed from outside: C32                                         *)
(***************************************************************************)
\* C32: a preview command started while a pane was recorded, run after
\* that pane was closed, makes no respawn-pane call and exactly one
\* split-window call, and when it succeeds, handling its result leaves the
\* handle Live(newPane, session) with the pane split-window returned, which
\* is not the closed one.
C32_CreateWhenPaneGone ==
    [][\A x \in SoftResults :
          (Handled(x) /\ x.currentPane # <<>> /\ ~x.alive)
          => /\ CallsNamed(x.calls, "respawn-pane") = {}
             /\ Cardinality(CallsNamed(x.calls, "split-window")) = 1
             /\ ~x.err => /\ x.pane # x.currentPane
                          /\ m'.previewPane = x.pane
                          /\ m'.previewSession = x.session]_vars

(***************************************************************************)
(* A failed refresh: C33                                                   *)
(***************************************************************************)
\* The results of refreshes that failed.
FailedRefreshes == {x \in BagToSet(msgs) : x.type = "loaded" /\ x.err}

\* C33: the result of a refresh whose list-sessions call failed for
\* another reason than a missing server carries no groups, and handling it
\* changes no field of the model but the status: groups, selectedWorkspace,
\* selectedSession, activeWorkspace, activeSession, previewPane and
\* previewSession stay as they were.
C33_FailedRefreshKeepsState ==
    [][\A x \in FailedRefreshes :
          Handled(x) => /\ x.groups = <<>>
                        /\ m' = [m EXCEPT !.status = m'.status]]_vars

\* A failed refresh was handled while groups were shown, a session was
\* selected and the handle was Live.
C33_Witness_FailureOverLiveList ==
    /\ m.status = "Refresh failed"
    /\ m.groups # <<>>
    /\ m.selectedSession >= 0
    /\ m.activeSession # <<>>
    /\ m.previewPane # <<>>
    /\ m.previewSession # <<>>

(***************************************************************************)
(* Equal longest roots: C34                                                *)
(***************************************************************************)
\* The non-root groups whose rootPath is an aligned prefix of wd and as
\* long as any such rootPath.
LongestUnder(wd) ==
    LET under == {i \in 2..Len(gIn.skeleton) : UnderRoot(wd, gIn.skeleton[i].Path)}
    IN  {i \in under :
            \A j \in under : Len(gIn.skeleton[j].Path) <= Len(gIn.skeleton[i].Path)}

\* C34: when the rootPaths of two non-root groups are aligned prefixes of a
\* reported session's working directory and both of the longest length,
\* grouping succeeds and the session is placed in the first of them in
\* group order, and in no other group.
C34_FirstOfEqualLongest ==
    (gPc = "out" /\ gIn.listErr = "") =>
        \A r \in 1..Len(gIn.rows) :
            LET name == gIn.rows[r].Name
                longest == LongestUnder(ReportedWorkdir(name))
            IN  Cardinality(longest) >= 2 =>
                    /\ ~gOut.err
                    /\ GroupsHolding(name) = {Min(longest)}

\* Both repo groups have rootPath /a, session x runs in /a/b, and x is in
\* the first of the two.
C34_Witness_SameRootTwice ==
    /\ gPc = "out"
    /\ gIn.skeleton[2].Path = <<"/", "a">>
    /\ gIn.skeleton[3].Path = <<"/", "a">>
    /\ ReportedWorkdir(<<"x">>) = <<"/", "a", "/", "b">>
    /\ GroupsHolding(<<"x">>) = {2}

NumberedRefreshes == {x \in BagToSet(msgs) : x.type = "loaded" /\ ~x.err}

\* C36: handling the result of a refresh issued before the refresh whose
\* groups are shown leaves the groups as they are.
C36_OlderRefreshNeverOverwrites ==
    [][\A x \in NumberedRefreshes :
          (Handled(x) /\ x.seq < gOut) => m'.groups = m.groups]_vars

(***************************************************************************)
(* Selection: C37, C39                                                     *)
(***************************************************************************)
\* The sessions of the selected group of model mm.
SelectedSessions(mm) == mm.groups[mm.selectedWorkspace + 1].Sessions

\* C37: in every reachable state with a non-empty group list,
\* selectedWorkspace is the index of a group, selectedSession is -1 or the
\* index of a session of that group, activeWorkspace is the name of the
\* selected group, and activeSession is the name of the selected session,
\* empty on a repo row.
C37_SelectionValid ==
    m.groups # <<>> =>
        /\ m.selectedWorkspace \in 0..(Len(m.groups) - 1)
        /\ m.selectedSession \in -1..(Len(SelectedSessions(m)) - 1)
        /\ m.activeWorkspace = m.groups[m.selectedWorkspace + 1].Name
        /\ m.activeSession = IF m.selectedSession >= 0
                             THEN SelectedSessions(m)[m.selectedSession + 1].Name
                             ELSE <<>>

\* Inside tmux, session y was destroyed while selected and a refresh was
\* handled after it: the list shows x alone and x is selected.
C37_Witness_AfterSessionRemoved ==
    /\ tmux.inTmux
    /\ SessionNamesOf(tmux) = {<<"x">>}
    /\ ShownNames(m) = {<<"x">>}
    /\ m.status = "Loaded"
    /\ keys = 2
    /\ m.selectedSession = 0
    /\ m.activeSession = <<"x">>

(***************************************************************************)
(* The result partitions the report: C38                                   *)
(***************************************************************************)
\* C38: in every successful result of groupedSessions each reported
\* session with a non-empty name is in exactly one group, once, and every
\* session of every group is a reported one.
C38_ResultPartitionsReport ==
    (gPc = "out" /\ ~gOut.err) =>
        /\ \A n \in ReportedNames \ {<<>>} :
              Cardinality(Places(gOut.groups, n)) = 1
        /\ \A i \in 1..Len(gOut.groups) :
              \A k \in 1..Len(gOut.groups[i].Sessions) :
                  gOut.groups[i].Sessions[k].Name \in ReportedNames

\* Three sessions are reported with groups rooted at /a and /a/b: y, in
\* /a/b, is in the second repo group, x and z are in the root group.
C38_Witness_ThreeSessionsPlaced ==
    /\ gPc = "out"
    /\ ~gOut.err
    /\ gIn.skeleton[3].Path = <<"/", "a", "/", "b">>
    /\ ReportedNames = {<<"x">>, <<"y">>, <<"z">>}
    /\ Places(gOut.groups, <<"x">>) = {<<1, 1>>}
    /\ Places(gOut.groups, <<"y">>) = {<<3, 1>>}
    /\ Places(gOut.groups, <<"z">>) = {<<1, 2>>}

\* The name of the selected session of model mm, empty on a repo row, and
\* the name of its selected group.
SelectedName(mm) ==
    IF mm.groups # <<>> /\ mm.selectedSession >= 0
    THEN SelectedSessions(mm)[mm.selectedSession + 1].Name ELSE <<>>

SelectedGroup(mm) ==
    IF mm.groups # <<>> THEN mm.groups[mm.selectedWorkspace + 1].Name ELSE <<>>

\* The names of the sessions that groups lists in the group named gname.
NamesIn(groups, gname) ==
    UNION {{groups[i].Sessions[k].Name : k \in 1..Len(groups[i].Sessions)} :
              i \in {j \in 1..Len(groups) : groups[j].Name = gname}}

\* The sessions the tmux server starts with; every other session was
\* created by the new-session keys of the program.
StartSessions == {<<"x">>, <<"y">>}

\* C39: handling a refresh that still reports the selected session in its
\* group leaves that session selected in that group; and handling the
\* first refresh that reports, in the selected group, a session the
\* program created leaves that session selected.
C39_SelectionFollowsSession ==
    [][\A x \in Refreshes :
          Handled(x) =>
             /\ (SelectedName(m) # <<>>
                 /\ SelectedName(m) \in NamesIn(x.groups, SelectedGroup(m)))
                => /\ SelectedGroup(m') = SelectedGroup(m)
                   /\ SelectedName(m') = SelectedName(m)
             /\ \A n \in NamesIn(x.groups, SelectedGroup(m)) \ ShownNames(m) :
                   n \notin StartSessions
                   => /\ SelectedGroup(m') = SelectedGroup(m)
                      /\ SelectedName(m') = n]_vars

(***************************************************************************)
(* The handle is Empty or Live: C40                                        *)
(***************************************************************************)
\* C40: in every reachable state previewPane is empty exactly when
\* previewSession is empty.
C40_HandleEmptyOrLive ==
    (m.previewPane = <<>>) <=> (m.previewSession = <<>>)

\* The handle is Live(%1, y) after the key "down" and the respawn of pane
\* %1, which mirrors y.
C40_Witness_LiveAfterRespawn ==
    /\ m.previewPane = PaneId(1)
    /\ m.previewSession = <<"y">>
    /\ m.activeSession = <<"y">>
    /\ keys = 1
    /\ tmux.nextPane = 2
    /\ \E p \in tmux.panes : p.id = 1 /\ p.session = <<"y">>

====
